---- MODULE Spec2Model ----
(***************************************************************************)
(* SOFS11: state-machine model of the on-disk core (inode allocator, data  *)
(* cluster allocator, file-cluster mapper, directory operations).          *)
(*                                                                         *)
(* Every C function is an operator from a volume S = [sb, inode, clust]    *)
(* to a result [S, err, val]: S is the volume the call leaves behind (also *)
(* when it fails half way), err the returned status ("OK" for 0) and val   *)
(* the value stored through the output pointer.                            *)
(***************************************************************************)
EXTENDS Integers, Sequences, FiniteSets, TLC

VARIABLES sb, inode, clust, ret, nops, cred

vars == <<sb, inode, clust, ret, nops, cred>>

(***************************************************************************)
(* Sizes.  The volume geometry is scaled down; the relations between the   *)
(* sizes are those of the source.                                          *)
(***************************************************************************)
itotal == 4
dzone_total == 5
DZONE_CACHE_SIZE == 2
N_DIRECT == 2
RPC == 2
DPC == 3
BSLPC == 2
MaxOps == 6
MaxHfcOps == 4
MaxDirOps == 3
MaxCacheOps == 7
MaxAccessOps == 1
MaxEmptyOps == 3
MaxPathOps == 3
MaxCount == 2
MaxLinkOps == 2
MaxTreeOps == 3
MaxReuseOps == 4
IPB == 2
BLOCKS_PER_CLUSTER == 2
MaxBlocks == 9
MaxRequest == 5
MaxFormatOps == 4
MaxDataOps == 3
MaxMapOps == 4
MaxCrashOps == 3
MaxGrowOps == 4
MaxCreateOps == 4
MaxTruncOps == 5
MaxWrite == 6
MaxPos == 3
\* the modulus of the unsigned arithmetic of mkfs and fsck: uint32_t scaled to
\* 30 bits, so that every product below stays within the integers of TLC
Word == 1073741824
MAGIC_NUMBER == 26110
UNFORMATTED == 65535
PRU == 0
NPRU == 1

NULL_INODE == 0 - 1
NULL_CLUSTER == 0 - 1
NOW == 1000

\* the calling process (root)
\* the identity of the calling process
getuid == cred.uid
getgid == cred.gid

MAX_FILE_CLUSTERS == N_DIRECT + RPC + RPC * RPC

InodeNums == 0 .. (itotal - 1)
ClustNums == 0 .. (dzone_total - 1)

INODE_FREE == "FREE"
INODE_DIR == "DIR"
INODE_FILE == "FILE"
INODE_SYMLINK == "SYMLINK"
INODE_TYPE_MASK == {INODE_DIR, INODE_FILE, INODE_SYMLINK}

Res(S, e, v) == [S |-> S, err |-> e, val |-> v]

NullRefs == [i \in 0 .. (RPC - 1) |-> NULL_CLUSTER]
NullDirect == [i \in 0 .. (N_DIRECT - 1) |-> NULL_CLUSTER]

(***************************************************************************)
(* mkfs: the freshly formatted volume.                                     *)
(***************************************************************************)
fillInSuperBlock ==
  [ itotal |-> itotal,
    ifree |-> itotal - 1,
    ihead |-> 1,
    itail |-> itotal - 1,
    dzone_total |-> dzone_total,
    dzone_free |-> dzone_total - 1,
    dzone_retriev |-> [cache_idx |-> DZONE_CACHE_SIZE,
                       cache |-> [i \in 0 .. (DZONE_CACHE_SIZE - 1) |-> NULL_CLUSTER]],
    dzone_insert |-> [cache_idx |-> 0,
                      cache |-> [i \in 0 .. (DZONE_CACHE_SIZE - 1) |-> NULL_CLUSTER]],
    dhead |-> 1,
    dtail |-> dzone_total - 1 ]

fillInINT ==
  [ n \in InodeNums |->
      IF n = 0
      THEN [ mode |-> [flags |-> {INODE_DIR}, perm |-> 511],
             refcount |-> 2, owner |-> 0, group |-> 0,
             size |-> DPC, clucount |-> 1,
             vD1 |-> NOW, vD2 |-> NOW,
             d |-> [i \in 0 .. (N_DIRECT - 1) |-> IF i = 0 THEN 0 ELSE NULL_CLUSTER],
             i1 |-> NULL_CLUSTER, i2 |-> NULL_CLUSTER ]
      ELSE [ mode |-> [flags |-> {INODE_FREE}, perm |-> 0],
             refcount |-> 0, owner |-> 0, group |-> 0,
             size |-> 0, clucount |-> 0,
             vD1 |-> IF n = itotal - 1 THEN NULL_INODE ELSE n + 1,
             vD2 |-> IF n = 1 THEN NULL_INODE ELSE n - 1,
             d |-> NullDirect,
             i1 |-> NULL_CLUSTER, i2 |-> NULL_CLUSTER ] ]

EmptyEntry == [nInode |-> NULL_INODE, name |-> ""]

fillInRootDir ==
  [ prev |-> NULL_CLUSTER, next |-> NULL_CLUSTER, stat |-> 0,
    info |-> [kind |-> "dir",
              de |-> [i \in 0 .. (DPC - 1) |->
                        IF i = 0 THEN [nInode |-> 0, name |-> "."]
                        ELSE IF i = 1 THEN [nInode |-> 0, name |-> ".."]
                        ELSE EmptyEntry]] ]

fillInGenRep(c) ==
  [ prev |-> IF c = 1 THEN NULL_CLUSTER ELSE c - 1,
    next |-> IF c = dzone_total - 1 THEN NULL_CLUSTER ELSE c + 1,
    stat |-> NULL_INODE,
    info |-> [kind |-> "zero"] ]

mkfs ==
  [ sb |-> fillInSuperBlock,
    inode |-> fillInINT,
    clust |-> [c \in ClustNums |-> IF c = 0 THEN fillInRootDir ELSE fillInGenRep(c)] ]


(***************************************************************************)
(* Consistency predicates of sofs_basicconsist (library code that is not   *)
(* part of the source tree; modelled from its documented contract).        *)
(***************************************************************************)
InRangeOrNullInode(n) == n = NULL_INODE \/ n \in InodeNums
InRangeOrNullClust(c) == c = NULL_CLUSTER \/ c \in ClustNums

soQCheckInT(p_sb) ==
  IF p_sb.ifree <= p_sb.itotal /\ InRangeOrNullInode(p_sb.ihead) /\ InRangeOrNullInode(p_sb.itail)
  THEN "OK" ELSE "EINTINVAL"

soQCheckFInode(p_inode) ==
  IF INODE_FREE \in p_inode.mode.flags THEN "OK" ELSE "EFININVAL"

soQCheckFCInode(p_inode) ==
  IF /\ p_inode.mode = [flags |-> {INODE_FREE}, perm |-> 0]
     /\ p_inode.refcount = 0 /\ p_inode.size = 0 /\ p_inode.clucount = 0
     /\ p_inode.d = NullDirect /\ p_inode.i1 = NULL_CLUSTER /\ p_inode.i2 = NULL_CLUSTER
  THEN "OK" ELSE "EFCININVAL"

soQCheckFDInode(p_sb, p_inode) ==
  IF /\ INODE_FREE \in p_inode.mode.flags
     /\ InRangeOrNullInode(p_inode.vD1) /\ InRangeOrNullInode(p_inode.vD2)
  THEN "OK" ELSE "EFDININVAL"

soQCheckInodeIU(p_sb, p_inode) ==
  IF /\ INODE_FREE \notin p_inode.mode.flags
     /\ Cardinality(p_inode.mode.flags \cap INODE_TYPE_MASK) = 1
     /\ \A i \in 0 .. (N_DIRECT - 1) : InRangeOrNullClust(p_inode.d[i])
     /\ InRangeOrNullClust(p_inode.i1) /\ InRangeOrNullClust(p_inode.i2)
  THEN "OK" ELSE "EIUININVAL"

ALLOC_CLT == "ALLOC_CLT"
FREE_CLT == "FREE_CLT"

InRetriev(p_sb, c) ==
  \E i \in p_sb.dzone_retriev.cache_idx .. (DZONE_CACHE_SIZE - 1) : p_sb.dzone_retriev.cache[i] = c
InInsert(p_sb, c) ==
  \E i \in 0 .. (p_sb.dzone_insert.cache_idx - 1) : p_sb.dzone_insert.cache[i] = c

soQCheckStatDC(S, nClust) ==
  IF \/ InRetriev(S.sb, nClust) \/ InInsert(S.sb, nClust)
     \/ S.clust[nClust].prev # NULL_CLUSTER \/ S.clust[nClust].next # NULL_CLUSTER
     \/ S.sb.dhead = nClust
  THEN FREE_CLT ELSE ALLOC_CLT

(***************************************************************************)
(* Data-cluster allocator (level 1).                                       *)
(***************************************************************************)
RECURSIVE DepleteLoop(_, _)
\* DepleteLoop without the write of prev in the appended cluster
DepleteLoop_NoPrev(S, index) ==
  IF index < S.sb.dzone_insert.cache_idx
  THEN LET c == S.sb.dzone_insert.cache[index]
           t == S.sb.dtail
       IN DepleteLoop([S EXCEPT !.clust[t].next = c,
                                !.clust[c].next = NULL_CLUSTER,
                                !.sb.dtail = c], index + 1)
  ELSE [S EXCEPT !.sb.dzone_insert.cache_idx = 0]

DepleteLoop(S, index) ==
  IF index < S.sb.dzone_insert.cache_idx
  THEN LET c == S.sb.dzone_insert.cache[index]
           t == S.sb.dtail
       IN DepleteLoop([S EXCEPT !.clust[t].next = c,
                                !.clust[c].prev = t,
                                !.clust[c].next = NULL_CLUSTER,
                                !.sb.dtail = c], index + 1)
  ELSE [S EXCEPT !.sb.dzone_insert.cache_idx = 0]

soDeplete(S) ==
  IF S.sb.dzone_insert.cache_idx = 0 THEN Res(S, "OK", 0)
  ELSE IF S.sb.dhead = NULL_CLUSTER
  THEN Res(DepleteLoop([S EXCEPT !.sb.dhead = S.sb.dzone_insert.cache[0],
                                 !.sb.dtail = S.sb.dzone_insert.cache[0]], 1), "OK", 0)
  ELSE Res(DepleteLoop(S, 0), "OK", 0)

\* one pass of the retrieval loop: the head leaves the general list
ReplenishTake(S) ==
  LET h == S.sb.dhead
      nxt == S.clust[h].next
  IN IF nxt # NULL_CLUSTER
     THEN [S EXCEPT !.clust[nxt].prev = NULL_CLUSTER,
                    !.clust[h] = [S.clust[h] EXCEPT !.next = NULL_CLUSTER],
                    !.sb.dhead = nxt]
     ELSE [S EXCEPT !.clust[h].next = NULL_CLUSTER,
                    !.sb.dhead = NULL_CLUSTER,
                    !.sb.dtail = NULL_CLUSTER]

ReplenishRefill(S1, n) ==
  IF n # DZONE_CACHE_SIZE /\ S1.sb.dhead = NULL_CLUSTER
     /\ (DZONE_CACHE_SIZE - n) < S1.sb.dzone_free
  THEN soDeplete(S1) ELSE Res(S1, "OK", 0)

RECURSIVE ReplenishLoop(_, _)
ReplenishNext(D, aux1) ==
  IF D.err # "OK" THEN Res(D.S, D.err, aux1) ELSE ReplenishLoop(D.S, aux1)

ReplenishLoop(S, aux) ==
  IF Len(aux) # DZONE_CACHE_SIZE /\ S.sb.dhead # NULL_CLUSTER
  THEN ReplenishNext(ReplenishRefill(ReplenishTake(S), Len(aux) + 1), Append(aux, S.sb.dhead))
  ELSE Res(S, "OK", aux)

\* the retrieved references are stored below cache_idx, in retrieval order
ReplenishStore(L) ==
  IF L.err # "OK" THEN Res(L.S, L.err, 0)
  ELSE LET n == Len(L.val)
           idx == L.S.sb.dzone_retriev.cache_idx
       IN Res([L.S EXCEPT !.sb.dzone_retriev.cache_idx = idx - n,
                          !.sb.dzone_retriev.cache =
                             [i \in 0 .. (DZONE_CACHE_SIZE - 1) |->
                                IF i >= idx - n /\ i < idx THEN L.val[i - (idx - n) + 1] ELSE @[i]]],
              "OK", 0)

ReplenishFrom(D) ==
  IF D.err # "OK" THEN D ELSE ReplenishStore(ReplenishLoop(D.S, <<>>))

soReplenish(S) ==
  IF S.sb.dzone_free = 0 THEN Res(S, "ENOSPC", 0)
  ELSE IF S.sb.dhead = NULL_CLUSTER THEN ReplenishFrom(soDeplete(S))
  ELSE ReplenishFrom(Res(S, "OK", 0))

soCleanDataCluster(S, nInode, nLClust) ==
  IF S.clust[nLClust].stat # nInode THEN Res(S, "EWGINODENB", 0)
  ELSE Res([S EXCEPT !.clust[nLClust].info = [kind |-> "zero"],
                     !.clust[nLClust].stat = NULL_INODE], "OK", 0)

\* the cluster is written back from the copy read before it was cleaned
AllocStamp(C, allocCluster, logiCluster, nInode) ==
  IF C.err # "OK" THEN Res(C.S, C.err, NULL_CLUSTER)
  ELSE Res([C.S EXCEPT !.clust[logiCluster] = [allocCluster EXCEPT !.stat = nInode]],
           "OK", logiCluster)

\* soAllocDataCluster that leaves dzone_free as it was
AllocPop_NoCount(S1, logiCluster, nInode) ==
  LET S2 == [S1 EXCEPT !.sb.dzone_retriev.cache_idx = @ + 1]
  IN IF S1.clust[logiCluster].stat # NULL_INODE
     THEN AllocStamp(soCleanDataCluster(S2, S1.clust[logiCluster].stat, logiCluster),
                     S1.clust[logiCluster], logiCluster, nInode)
     ELSE AllocStamp(Res(S2, "OK", 0), S1.clust[logiCluster], logiCluster, nInode)

AllocPop(S1, logiCluster, nInode) ==
  LET S2 == [S1 EXCEPT !.sb.dzone_free = @ - 1,
                       !.sb.dzone_retriev.cache_idx = @ + 1]
  IN IF S1.clust[logiCluster].stat # NULL_INODE
     THEN AllocStamp(soCleanDataCluster(S2, S1.clust[logiCluster].stat, logiCluster),
                     S1.clust[logiCluster], logiCluster, nInode)
     ELSE AllocStamp(Res(S2, "OK", 0), S1.clust[logiCluster], logiCluster, nInode)

AllocCheck(S1, logiCluster, nInode) ==
  IF logiCluster \notin ClustNums THEN Res(S1, "EINVAL", NULL_CLUSTER)
  ELSE IF soQCheckStatDC(S1, logiCluster) # FREE_CLT THEN Res(S1, "EDCINVAL", NULL_CLUSTER)
  ELSE AllocPop(S1, logiCluster, nInode)

AllocFrom(R, nInode) ==
  IF R.err # "OK" THEN Res(R.S, R.err, NULL_CLUSTER)
  ELSE AllocCheck(R.S,
                  IF R.S.sb.dzone_retriev.cache_idx < DZONE_CACHE_SIZE
                  THEN R.S.sb.dzone_retriev.cache[R.S.sb.dzone_retriev.cache_idx]
                  ELSE NULL_CLUSTER,
                  nInode)

\* soAllocDataCluster that does not look at the state of the target inode
soAllocDataCluster_AnyInode(S, nInode) ==
  IF nInode >= S.sb.itotal THEN Res(S, "EINVAL", NULL_CLUSTER)
  ELSE IF S.sb.dzone_free = 0 THEN Res(S, "ENOSPC", NULL_CLUSTER)
  ELSE IF S.sb.dzone_retriev.cache_idx = DZONE_CACHE_SIZE THEN AllocFrom(soReplenish(S), nInode)
  ELSE AllocFrom(Res(S, "OK", 0), nInode)

soAllocDataCluster(S, nInode) ==
  IF nInode >= S.sb.itotal THEN Res(S, "EINVAL", NULL_CLUSTER)
  ELSE IF S.sb.dzone_free = 0 THEN Res(S, "ENOSPC", NULL_CLUSTER)
  ELSE IF soQCheckFInode(S.inode[nInode]) = "OK" THEN Res(S, "EIUININVAL", NULL_CLUSTER)
  ELSE IF S.sb.dzone_retriev.cache_idx = DZONE_CACHE_SIZE THEN AllocFrom(soReplenish(S), nInode)
  ELSE AllocFrom(Res(S, "OK", 0), nInode)

FreeInsert(S1, nClust) ==
  LET idx == S1.sb.dzone_insert.cache_idx
  IN [S1 EXCEPT !.clust[nClust].prev = NULL_CLUSTER,
                !.clust[nClust].next = NULL_CLUSTER,
                !.sb.dzone_insert.cache[idx] = nClust,
                !.sb.dzone_insert.cache_idx = idx + 1,
                !.sb.dzone_free = @ + 1]

FreeFrom(D, nClust) ==
  IF D.err # "OK" THEN D ELSE Res(FreeInsert(D.S, nClust), "OK", 0)

\* soFreeDataCluster that does not look at the allocation status
soFreeDataCluster_NoStatus(S, nClust) ==
  IF nClust <= 0 \/ nClust >= S.sb.dzone_total THEN Res(S, "EINVAL", 0)
  ELSE IF S.sb.dzone_insert.cache_idx = DZONE_CACHE_SIZE THEN FreeFrom(soDeplete(S), nClust)
  ELSE FreeFrom(Res(S, "OK", 0), nClust)

soFreeDataCluster(S, nClust) ==
  IF nClust <= 0 \/ nClust >= S.sb.dzone_total THEN Res(S, "EINVAL", 0)
  ELSE IF soQCheckStatDC(S, nClust) # ALLOC_CLT THEN Res(S, "EINVAL", 0)
  ELSE IF S.sb.dzone_insert.cache_idx = DZONE_CACHE_SIZE THEN FreeFrom(soDeplete(S), nClust)
  ELSE FreeFrom(Res(S, "OK", 0), nClust)

(***************************************************************************)
(* Views of a cluster payload.  The payload is a union in the source; a    *)
(* zero-filled payload read as references yields reference 0 everywhere,   *)
(* any other foreign payload yields bytes that are no valid reference.     *)
(***************************************************************************)
BAD_REF == dzone_total

RefView(info) ==
  IF info.kind = "ref" THEN info.ref
  ELSE IF info.kind = "zero" THEN [i \in 0 .. (RPC - 1) |-> 0]
  ELSE [i \in 0 .. (RPC - 1) |-> BAD_REF]

RefInfo(r) == [kind |-> "ref", ref |-> r]

(***************************************************************************)
(* Inode cleaning (level 2) and the inode allocator (level 1).             *)
(***************************************************************************)
RECURSIVE CleanI2Loop(_, _, _)
CleanI2Next(F, IClustRef, IClustIdx) ==
  IF F.err # "OK" THEN Res(F.S, F.err, IClustRef)
  ELSE CleanI2Loop(F.S, [IClustRef EXCEPT ![IClustIdx] = NULL_CLUSTER], IClustIdx + 1)

CleanI2Loop(S, IClustRef, IClustIdx) ==
  IF IClustIdx >= RPC THEN Res(S, "OK", IClustRef)
  ELSE IF IClustRef[IClustIdx] = NULL_CLUSTER THEN CleanI2Loop(S, IClustRef, IClustIdx + 1)
  ELSE IF IClustRef[IClustIdx] \notin ClustNums THEN Res(S, "EINVAL", IClustRef)
  ELSE CleanI2Next(soFreeDataCluster(
                     [S EXCEPT !.clust[IClustRef[IClustIdx]].info = RefInfo(NullRefs),
                               !.clust[IClustRef[IClustIdx]].stat = NULL_INODE],
                     IClustRef[IClustIdx]),
                   IClustRef, IClustIdx)

CleanI2Store(L, i2) ==
  IF L.err # "OK" THEN Res(L.S, L.err, 0)
  ELSE soFreeDataCluster([L.S EXCEPT !.clust[i2].info = RefInfo(L.val),
                                     !.clust[i2].stat = NULL_INODE], i2)

CleanI2(S, i2) ==
  IF i2 = NULL_CLUSTER THEN Res(S, "OK", 0)
  ELSE IF i2 \notin ClustNums THEN Res(S, "EINVAL", 0)
  ELSE CleanI2Store(CleanI2Loop(S, RefView(S.clust[i2].info), 0), i2)

CleanI1(A, i1) ==
  IF A.err # "OK" \/ i1 = NULL_CLUSTER THEN A
  ELSE IF i1 \notin ClustNums THEN Res(A.S, "EINVAL", 0)
  ELSE soFreeDataCluster([A.S EXCEPT !.clust[i1].info = RefInfo(NullRefs),
                                     !.clust[i1].stat = NULL_INODE], i1)

\* the inode is changed in its buffer and stored by the last statement only
CleanInodeStore(B, nInode) ==
  IF B.err # "OK" THEN B
  ELSE Res([B.S EXCEPT !.inode[nInode].i2 = NULL_CLUSTER,
                       !.inode[nInode].i1 = NULL_CLUSTER,
                       !.inode[nInode].d = NullDirect,
                       !.inode[nInode].refcount = 0,
                       !.inode[nInode].size = 0,
                       !.inode[nInode].clucount = 0], "OK", 0)

soCleanInode(S, nInode) ==
  IF nInode = 0 \/ nInode >= S.sb.itotal THEN Res(S, "EINVAL", 0)
  ELSE IF soQCheckFDInode(S.sb, S.inode[nInode]) # "OK"
       THEN Res(S, soQCheckFDInode(S.sb, S.inode[nInode]), 0)
  ELSE CleanInodeStore(CleanI1(CleanI2(S, S.inode[nInode].i2), S.inode[nInode].i1), nInode)

\* soFreeInode that forgets to count the inserted inode
FreeInodeInsert_NoCount(S, nInode) ==
  LET itail == S.sb.itail
      freeInode == [S.inode[nInode] EXCEPT
                      !.mode.flags = @ \cup {INODE_FREE},
                      !.vD1 = NULL_INODE,
                      !.vD2 = itail]
      in1 == [S.inode EXCEPT ![nInode] = freeInode]
      in2 == IF itail # NULL_INODE THEN [in1 EXCEPT ![itail].vD1 = nInode] ELSE in1
  IN [S EXCEPT !.inode = in2,
               !.sb.ihead = IF itail = NULL_INODE THEN nInode ELSE @,
               !.sb.itail = nInode]

\* the insertion at the tail of the free list (soFreeInode, "Free inode" on)
FreeInodeInsert(S, nInode) ==
  LET itail == S.sb.itail
      freeInode == [S.inode[nInode] EXCEPT
                      !.mode.flags = @ \cup {INODE_FREE},
                      !.vD1 = NULL_INODE,
                      !.vD2 = itail]
      in1 == [S.inode EXCEPT ![nInode] = freeInode]
      in2 == IF itail # NULL_INODE THEN [in1 EXCEPT ![itail].vD1 = nInode] ELSE in1
  IN [S EXCEPT !.inode = in2,
               !.sb.ihead = IF itail = NULL_INODE THEN nInode ELSE @,
               !.sb.itail = nInode,
               !.sb.ifree = @ + 1]

\* soFreeInode that does not look at the reference count
soFreeInode_AnyRefcount(S, nInode) ==
  IF nInode <= 0 \/ nInode >= S.sb.itotal THEN Res(S, "EINVAL", 0)
  ELSE IF soQCheckInT(S.sb) # "OK" THEN Res(S, soQCheckInT(S.sb), 0)
  ELSE IF soQCheckInodeIU(S.sb, S.inode[nInode]) # "OK"
       THEN Res(S, soQCheckInodeIU(S.sb, S.inode[nInode]), 0)
  ELSE IF S.inode[nInode].mode.flags \cap INODE_TYPE_MASK = {} THEN Res(S, "ELIBBAD", 0)
  ELSE Res(FreeInodeInsert(S, nInode), "OK", 0)

soFreeInode(S, nInode) ==
  IF nInode <= 0 \/ nInode >= S.sb.itotal THEN Res(S, "EINVAL", 0)
  ELSE IF soQCheckInT(S.sb) # "OK" THEN Res(S, soQCheckInT(S.sb), 0)
  ELSE IF soQCheckInodeIU(S.sb, S.inode[nInode]) # "OK"
       THEN Res(S, soQCheckInodeIU(S.sb, S.inode[nInode]), 0)
  ELSE IF S.inode[nInode].mode.flags \cap INODE_TYPE_MASK = {} THEN Res(S, "ELIBBAD", 0)
  ELSE IF S.inode[nInode].refcount # 0 THEN Res(S, "ELIBBAD", 0)
  ELSE Res(FreeInodeInsert(S, nInode), "OK", 0)

\* soAllocInode that leaves the stale prev pointer in the new head
AllocInodeDetach_StalePrev(S) ==
  LET nInode == S.sb.ihead
      newHead == IF S.sb.ifree = 1 THEN NULL_INODE ELSE S.inode[nInode].vD1
      S1 == [S EXCEPT !.sb.ihead = newHead,
                      !.sb.itail = IF S.sb.ifree = 1 THEN NULL_INODE ELSE @]
  IN IF newHead # NULL_INODE /\ newHead \notin InodeNums THEN Res(S1, "EINVAL", nInode)
     ELSE Res([S1 EXCEPT !.sb.ifree = @ - 1], "OK", nInode)

\* the removal of the head of the free list (soAllocInode, lines 463-490)
AllocInodeDetach(S) ==
  LET nInode == S.sb.ihead
      newHead == IF S.sb.ifree = 1 THEN NULL_INODE ELSE S.inode[nInode].vD1
      S1 == [S EXCEPT !.sb.ihead = newHead,
                      !.sb.itail = IF S.sb.ifree = 1 THEN NULL_INODE ELSE @]
  IN IF newHead # NULL_INODE /\ newHead \notin InodeNums THEN Res(S1, "EINVAL", nInode)
     ELSE IF newHead # NULL_INODE
     THEN Res([S1 EXCEPT !.inode[newHead].vD2 = NULL_INODE, !.sb.ifree = @ - 1], "OK", nInode)
     ELSE Res([S1 EXCEPT !.sb.ifree = @ - 1], "OK", nInode)

AllocInodeInit(C, nInode, type) ==
  IF C.err # "OK" THEN Res(C.S, C.err, NULL_INODE)
  ELSE LET headInode == [C.S.inode[nInode] EXCEPT
                           !.mode = [flags |-> {type}, perm |-> 0],
                           !.refcount = 0,
                           !.owner = getuid, !.group = getgid,
                           !.size = 0, !.clucount = 0,
                           !.vD1 = NOW, !.vD2 = NOW]
       IN IF soQCheckInodeIU(C.S.sb, headInode) # "OK"
          THEN Res([C.S EXCEPT !.inode[nInode] = headInode],
                   soQCheckInodeIU(C.S.sb, headInode), NULL_INODE)
          ELSE Res([C.S EXCEPT !.inode[nInode] = headInode], "OK", nInode)

AllocInodeClean(D, type) ==
  IF D.err # "OK" THEN Res(D.S, D.err, NULL_INODE)
  ELSE IF soQCheckFCInode(D.S.inode[D.val]) # "OK"
  THEN AllocInodeInit(soCleanInode(D.S, D.val), D.val, type)
  ELSE AllocInodeInit(Res(D.S, "OK", 0), D.val, type)

soAllocInode(S, type) ==
  IF type \notin INODE_TYPE_MASK THEN Res(S, "EINVAL", NULL_INODE)
  ELSE IF soQCheckInT(S.sb) # "OK" THEN Res(S, soQCheckInT(S.sb), NULL_INODE)
  ELSE IF S.sb.ifree = 0 THEN Res(S, "ENOSPC", NULL_INODE)
  ELSE IF S.sb.ihead \notin InodeNums THEN Res(S, "EINVAL", NULL_INODE)
  ELSE IF soQCheckFInode(S.inode[S.sb.ihead]) # "OK"
       THEN Res(S, soQCheckFInode(S.inode[S.sb.ihead]), NULL_INODE)
  ELSE AllocInodeClean(AllocInodeDetach(S), type)

(***************************************************************************)
(* Inode access (level 2).                                                 *)
(***************************************************************************)
IUIN == "IUIN"
FDIN == "FDIN"
R == 4
W == 2
X == 1

U16(n) == n % 65536

soReadInode(S, nInode, status) ==
  IF nInode >= S.sb.itotal THEN Res(S, "EINVAL", 0)
  ELSE IF status # IUIN /\ status # FDIN THEN Res(S, "EINVAL", 0)
  ELSE IF status = IUIN
  THEN IF soQCheckInodeIU(S.sb, S.inode[nInode]) # "OK"
       THEN Res(S, soQCheckInodeIU(S.sb, S.inode[nInode]), 0)
       ELSE Res([S EXCEPT !.inode[nInode].vD1 = NOW], "OK",
                [S.inode[nInode] EXCEPT !.vD1 = NOW])
  ELSE IF soQCheckFDInode(S.sb, S.inode[nInode]) # "OK"
       THEN Res(S, soQCheckFDInode(S.sb, S.inode[nInode]), 0)
       ELSE Res(S, "OK", S.inode[nInode])

soWriteInode(S, p_inode, nInode, status) ==
  IF nInode >= S.sb.itotal THEN Res(S, "EINVAL", 0)
  ELSE IF status # IUIN /\ status # FDIN THEN Res(S, "EINVAL", 0)
  ELSE IF status = IUIN /\ soQCheckInodeIU(S.sb, p_inode) # "OK"
       THEN Res(S, soQCheckInodeIU(S.sb, p_inode), 0)
  ELSE IF status = FDIN /\ soQCheckFDInode(S.sb, p_inode) # "OK"
       THEN Res(S, soQCheckFDInode(S.sb, p_inode), 0)
  ELSE IF p_inode.mode.flags \cap INODE_TYPE_MASK \notin {{INODE_DIR}, {INODE_FILE}, {INODE_SYMLINK}}
       THEN Res(S, IF status = IUIN THEN "EIUININVAL" ELSE "EFDININVAL", 0)
  ELSE IF status = IUIN
       THEN Res([S EXCEPT !.inode[nInode] = [p_inode EXCEPT !.vD1 = NOW, !.vD2 = NOW]], "OK", 0)
       ELSE Res([S EXCEPT !.inode[nInode] = p_inode], "OK", 0)

\* bit i of a three-bit permission triad
Bit(n, i) == (n \div (2 ^ i)) % 2
Triad(perm, k) == (perm \div (8 ^ k)) % 8
\* (triad & opRequested) == opRequested
Grants(triad, opRequested) == \A i \in 0 .. 2 : Bit(opRequested, i) = 1 => Bit(triad, i) = 1

AccessDecision(p_inode, opRequested) ==
  IF getuid = 0
  THEN IF Bit(opRequested, 0) = 1
       THEN IF \E k \in 0 .. 2 : Bit(Triad(p_inode.mode.perm, k), 0) = 1 THEN "OK" ELSE "EACCES"
       ELSE "OK"
  ELSE IF Grants(Triad(p_inode.mode.perm, 0), opRequested) THEN "OK"
  ELSE IF Grants(Triad(p_inode.mode.perm, 1), opRequested) /\ getgid = p_inode.group THEN "OK"
  ELSE IF Grants(Triad(p_inode.mode.perm, 2), opRequested) /\ getuid = p_inode.owner THEN "OK"
  ELSE "EACCES"

AccessFrom(I, opRequested) ==
  IF I.err # "OK" THEN Res(I.S, I.err, 0)
  ELSE Res(I.S, AccessDecision(I.val, opRequested), 0)

soAccessGranted(S, nInode, opRequested) ==
  IF nInode >= S.sb.itotal THEN Res(S, "EINVAL", 0)
  ELSE IF opRequested > 7 \/ opRequested < 1 THEN Res(S, "EINVAL", 0)
  ELSE AccessFrom(soReadInode(S, nInode, IUIN), opRequested)

(***************************************************************************)
(* File-cluster mapper (level 3).  A handler works on the caller's copy    *)
(* of the inode; its result carries the copy and the output value.         *)
(***************************************************************************)
GET == "GET"
ALLOC == "ALLOC"
FREE == "FREE"
FREE_CLEAN == "FREE_CLEAN"
CLEAN == "CLEAN"
HfcOps == {GET, ALLOC, FREE, FREE_CLEAN, CLEAN}

HRes(S, e, ino, out) == Res(S, e, [ino |-> ino, out |-> out])
HErr(F, ino) == HRes(F.S, F.err, ino, NULL_CLUSTER)

Refs(S, c) == RefView(S.clust[c].info)
WriteRefs(S, c, refs) == [S EXCEPT !.clust[c].info = RefInfo(refs)]
AllNull(refs) == \A i \in 0 .. (RPC - 1) : refs[i] = NULL_CLUSTER

soCleanLogicalCluster(S, nInode, nLClust) ==
  IF nLClust \notin ClustNums THEN Res(S, "EINVAL", 0)
  ELSE IF S.clust[nLClust].stat # nInode THEN Res(S, "EWGINODENB", 0)
  ELSE Res([S EXCEPT !.clust[nLClust].info = [kind |-> "zero"],
                     !.clust[nLClust].stat = NULL_INODE], "OK", 0)

\* FREE_CLEAN and CLEAN: the reference leaves the inode
DirectClean(C, ino, clustInd) ==
  IF C.err # "OK" THEN HErr(C, ino)
  ELSE HRes(C.S, "OK", [ino EXCEPT !.d[clustInd] = NULL_CLUSTER,
                                   !.clucount = @ - 1], NULL_CLUSTER)

\* FREE: the cluster is freed and the reference stays in the inode
DirectFree(F, nInode, ino, clustInd, op) ==
  IF F.err # "OK" THEN HErr(F, ino)
  ELSE IF op = FREE THEN HRes(F.S, "OK", ino, NULL_CLUSTER)
  ELSE DirectClean(soCleanLogicalCluster(F.S, nInode, ino.d[clustInd]), ino, clustInd)

DirectAlloc(A, ino, clustInd) ==
  IF A.err # "OK" THEN HErr(A, ino)
  ELSE HRes(A.S, "OK", [ino EXCEPT !.d[clustInd] = A.val, !.clucount = @ + 1], A.val)

soHandleDirect(S, nInode, ino, clustInd, op) ==
  IF op = GET THEN HRes(S, "OK", ino, ino.d[clustInd])
  ELSE IF op = ALLOC
  THEN IF ino.d[clustInd] # NULL_CLUSTER THEN HRes(S, "EDCARDYIL", ino, NULL_CLUSTER)
       ELSE DirectAlloc(soAllocDataCluster(S, nInode), ino, clustInd)
  ELSE IF ino.d[clustInd] = NULL_CLUSTER THEN HRes(S, "EDCNOTIL", ino, NULL_CLUSTER)
  ELSE IF op # CLEAN THEN DirectFree(soFreeDataCluster(S, ino.d[clustInd]), nInode, ino, clustInd, op)
  ELSE DirectFree(Res(S, "OK", 0), nInode, ino, clustInd, op)

\* i1 is null, ALLOC: the second allocation and the new reference cluster
SIndNew2(B, ino, clustIdx) ==
  IF B.err # "OK" THEN HErr(B, ino)
  ELSE HRes(WriteRefs(B.S, ino.i1, [NullRefs EXCEPT ![clustIdx] = B.val]), "OK",
            [ino EXCEPT !.clucount = @ + 1], B.val)

\* SIndNew1 with the reference cluster left out of clucount
SIndNew1_NoRefCount(A, nInode, ino, clustIdx) ==
  IF A.err # "OK" THEN HErr(A, ino)
  ELSE SIndNew2(soAllocDataCluster(A.S, nInode), [ino EXCEPT !.i1 = A.val], clustIdx)

SIndNew1(A, nInode, ino, clustIdx) ==
  IF A.err # "OK" THEN HErr(A, ino)
  ELSE SIndNew2(soAllocDataCluster(A.S, nInode),
                [ino EXCEPT !.i1 = A.val, !.clucount = @ + 1], clustIdx)

SIndAlloc(A, ino, clustIdx) ==
  IF A.err # "OK" THEN HErr(A, ino)
  ELSE HRes(WriteRefs(A.S, ino.i1, [Refs(A.S, ino.i1) EXCEPT ![clustIdx] = A.val]), "OK",
            [ino EXCEPT !.clucount = @ + 1], A.val)

\* the reference cluster went empty: it is freed and i1 is nulled
SIndDrop(F, ino) ==
  IF F.err # "OK" THEN HErr(F, ino)
  ELSE HRes(F.S, "OK", [ino EXCEPT !.i1 = NULL_CLUSTER, !.clucount = @ - 1], NULL_CLUSTER)

\* SIndClean without the scan of the reference cluster: i1 is never released
SIndClean_KeepsRefCluster(C, ino, clustIdx) ==
  IF C.err # "OK" THEN HErr(C, ino)
  ELSE HRes(WriteRefs(C.S, ino.i1, [Refs(C.S, ino.i1) EXCEPT ![clustIdx] = NULL_CLUSTER]), "OK",
            [ino EXCEPT !.clucount = @ - 1], NULL_CLUSTER)

SIndClean(C, ino, clustIdx) ==
  IF C.err # "OK" THEN HErr(C, ino)
  ELSE IF AllNull([Refs(C.S, ino.i1) EXCEPT ![clustIdx] = NULL_CLUSTER])
  THEN SIndDrop(soFreeDataCluster(
                  [C.S EXCEPT !.clust[ino.i1].info =
                                 RefInfo([Refs(C.S, ino.i1) EXCEPT ![clustIdx] = NULL_CLUSTER]),
                              !.clust[ino.i1].stat = NULL_INODE],
                  ino.i1),
                [ino EXCEPT !.clucount = @ - 1])
  ELSE HRes(WriteRefs(C.S, ino.i1, [Refs(C.S, ino.i1) EXCEPT ![clustIdx] = NULL_CLUSTER]), "OK",
            [ino EXCEPT !.clucount = @ - 1], NULL_CLUSTER)

SIndFree(F, nInode, ino, clustIdx, op, ref) ==
  IF F.err # "OK" THEN HErr(F, ino)
  ELSE IF op = FREE THEN HRes(F.S, "OK", ino, NULL_CLUSTER)
  ELSE SIndClean(soCleanLogicalCluster(F.S, nInode, ref), ino, clustIdx)

soHandleSIndirect(S, nInode, ino, clustInd, op) ==
  LET clustIdx == clustInd - N_DIRECT
  IN IF ino.i1 = NULL_CLUSTER
     THEN IF op = GET THEN HRes(S, "OK", ino, NULL_CLUSTER)
          ELSE IF op = ALLOC THEN SIndNew1(soAllocDataCluster(S, nInode), nInode, ino, clustIdx)
          ELSE HRes(S, "EDCNOTIL", ino, NULL_CLUSTER)
     ELSE IF ino.i1 \notin ClustNums THEN HRes(S, "EINVAL", ino, NULL_CLUSTER)
     ELSE IF op = GET THEN HRes(S, "OK", ino, Refs(S, ino.i1)[clustIdx])
     ELSE IF op = ALLOC
     THEN IF Refs(S, ino.i1)[clustIdx] # NULL_CLUSTER THEN HRes(S, "EDCARDYIL", ino, NULL_CLUSTER)
          ELSE SIndAlloc(soAllocDataCluster(S, nInode), ino, clustIdx)
     ELSE IF Refs(S, ino.i1)[clustIdx] = NULL_CLUSTER THEN HRes(S, "EDCNOTIL", ino, NULL_CLUSTER)
     ELSE IF op # CLEAN
     THEN SIndFree(soFreeDataCluster(S, Refs(S, ino.i1)[clustIdx]), nInode, ino, clustIdx, op,
                   Refs(S, ino.i1)[clustIdx])
     ELSE SIndFree(Res(S, "OK", 0), nInode, ino, clustIdx, op, Refs(S, ino.i1)[clustIdx])

\* i2 is null, ALLOC: three allocations and two new reference clusters
DIndNew3(C, ino, logDRefClust, DClustIdx) ==
  IF C.err # "OK" THEN HErr(C, ino)
  ELSE HRes(WriteRefs(C.S, logDRefClust, [NullRefs EXCEPT ![DClustIdx] = C.val]), "OK",
            [ino EXCEPT !.clucount = @ + 1], C.val)

DIndNew2(B, nInode, ino, IClustIdx, DClustIdx) ==
  IF B.err # "OK" THEN HErr(B, ino)
  ELSE DIndNew3(soAllocDataCluster(WriteRefs(B.S, ino.i2, [NullRefs EXCEPT ![IClustIdx] = B.val]),
                                   nInode),
                [ino EXCEPT !.clucount = @ + 1], B.val, DClustIdx)

DIndNew1(A, nInode, ino, IClustIdx, DClustIdx) ==
  IF A.err # "OK" THEN HErr(A, ino)
  ELSE DIndNew2(soAllocDataCluster(A.S, nInode), nInode,
                [ino EXCEPT !.i2 = A.val, !.clucount = @ + 1], IClustIdx, DClustIdx)

\* the reference is stored in the copy of the cluster loaded before the allocation
DIndLeafStore(A, ino, dref, DClustIdx, refs) ==
  IF A.err # "OK" THEN HErr(A, ino)
  ELSE HRes(WriteRefs(A.S, dref, [refs EXCEPT ![DClustIdx] = A.val]), "OK",
            [ino EXCEPT !.clucount = @ + 1], A.val)

DIndLeaf(S, nInode, ino, dref, DClustIdx) ==
  IF dref \notin ClustNums THEN HRes(S, "EINVAL", ino, NULL_CLUSTER)
  ELSE IF Refs(S, dref)[DClustIdx] # NULL_CLUSTER THEN HRes(S, "EDCARDYIL", ino, NULL_CLUSTER)
  ELSE DIndLeafStore(soAllocDataCluster(S, nInode), ino, dref, DClustIdx, Refs(S, dref))

\* ALLOC under an existing i2 whose slot is null: a new direct-reference cluster
DIndOuter(A, nInode, ino, IClustIdx, DClustIdx) ==
  IF A.err # "OK" THEN HErr(A, ino)
  ELSE DIndLeaf(WriteRefs(WriteRefs(A.S, ino.i2, [Refs(A.S, ino.i2) EXCEPT ![IClustIdx] = A.val]),
                          A.val, NullRefs),
                nInode, [ino EXCEPT !.clucount = @ + 1], A.val, DClustIdx)

DIndDropI2(F, ino) ==
  IF F.err # "OK" THEN HErr(F, ino)
  ELSE HRes(F.S, "OK", [ino EXCEPT !.i2 = NULL_CLUSTER, !.clucount = @ - 1], NULL_CLUSTER)

\* the direct-reference cluster was freed: its slot in i2 is nulled, and i2 is
\* freed in turn when it went empty
DIndDropOuter(F, ino, IClustIdx) ==
  IF F.err # "OK" THEN HErr(F, ino)
  ELSE IF AllNull([Refs(F.S, ino.i2) EXCEPT ![IClustIdx] = NULL_CLUSTER])
  THEN DIndDropI2(soFreeDataCluster(
                    [F.S EXCEPT !.clust[ino.i2].info =
                                   RefInfo([Refs(F.S, ino.i2) EXCEPT ![IClustIdx] = NULL_CLUSTER]),
                                !.clust[ino.i2].stat = NULL_INODE],
                    ino.i2),
                  [ino EXCEPT !.clucount = @ - 1])
  ELSE HRes(WriteRefs(F.S, ino.i2, [Refs(F.S, ino.i2) EXCEPT ![IClustIdx] = NULL_CLUSTER]), "OK",
            [ino EXCEPT !.clucount = @ - 1], NULL_CLUSTER)

DIndClean(C, ino, IClustIdx, DClustIdx, dref) ==
  IF C.err # "OK" THEN HErr(C, ino)
  ELSE IF AllNull([Refs(C.S, dref) EXCEPT ![DClustIdx] = NULL_CLUSTER])
  THEN DIndDropOuter(soFreeDataCluster(
                       [C.S EXCEPT !.clust[dref].info =
                                      RefInfo([Refs(C.S, dref) EXCEPT ![DClustIdx] = NULL_CLUSTER]),
                                   !.clust[dref].stat = NULL_INODE],
                       dref),
                     [ino EXCEPT !.clucount = @ - 1], IClustIdx)
  ELSE HRes(WriteRefs(C.S, dref, [Refs(C.S, dref) EXCEPT ![DClustIdx] = NULL_CLUSTER]), "OK",
            [ino EXCEPT !.clucount = @ - 1], NULL_CLUSTER)

DIndFree(F, nInode, ino, op, IClustIdx, DClustIdx, dref, ref) ==
  IF F.err # "OK" THEN HErr(F, ino)
  ELSE IF op = FREE THEN HRes(F.S, "OK", ino, NULL_CLUSTER)
  ELSE DIndClean(soCleanLogicalCluster(F.S, nInode, ref), ino, IClustIdx, DClustIdx, dref)

DIndExisting(S, nInode, ino, op, IClustIdx, DClustIdx, dref) ==
  IF op = GET
  THEN IF dref = NULL_CLUSTER THEN HRes(S, "OK", ino, NULL_CLUSTER)
       ELSE IF dref \notin ClustNums THEN HRes(S, "EINVAL", ino, NULL_CLUSTER)
       ELSE HRes(S, "OK", ino, Refs(S, dref)[DClustIdx])
  ELSE IF op = ALLOC
  THEN IF dref = NULL_CLUSTER
       THEN DIndOuter(soAllocDataCluster(S, nInode), nInode, ino, IClustIdx, DClustIdx)
       ELSE DIndLeaf(S, nInode, ino, dref, DClustIdx)
  ELSE IF dref = NULL_CLUSTER THEN HRes(S, "EDCNOTIL", ino, NULL_CLUSTER)
  ELSE IF dref \notin ClustNums THEN HRes(S, "EINVAL", ino, NULL_CLUSTER)
  ELSE IF Refs(S, dref)[DClustIdx] = NULL_CLUSTER THEN HRes(S, "EDCNOTIL", ino, NULL_CLUSTER)
  ELSE IF op # CLEAN
  THEN DIndFree(soFreeDataCluster(S, Refs(S, dref)[DClustIdx]), nInode, ino, op,
                IClustIdx, DClustIdx, dref, Refs(S, dref)[DClustIdx])
  ELSE DIndFree(Res(S, "OK", 0), nInode, ino, op,
                IClustIdx, DClustIdx, dref, Refs(S, dref)[DClustIdx])

soHandleDIndirect(S, nInode, ino, clustInd, op) ==
  LET IClustIdx == (clustInd - N_DIRECT - RPC) \div RPC
      DClustIdx == (clustInd - N_DIRECT - RPC) % RPC
  IN IF ino.i2 = NULL_CLUSTER
     THEN IF op = GET THEN HRes(S, "OK", ino, NULL_CLUSTER)
          ELSE IF op = ALLOC
          THEN DIndNew1(soAllocDataCluster(S, nInode), nInode, ino, IClustIdx, DClustIdx)
          ELSE HRes(S, "EDCNOTIL", ino, NULL_CLUSTER)
     ELSE IF ino.i2 \notin ClustNums THEN HRes(S, "EINVAL", ino, NULL_CLUSTER)
     ELSE DIndExisting(S, nInode, ino, op, IClustIdx, DClustIdx, Refs(S, ino.i2)[IClustIdx])

\* the inode copy is written back only when the handler succeeded
HfcWrite(H, nInode, op) ==
  IF H.err # "OK" THEN Res(H.S, H.err, NULL_CLUSTER)
  ELSE Res(soWriteInode(H.S, H.val.ino, nInode, IF op = CLEAN THEN FDIN ELSE IUIN).S,
           soWriteInode(H.S, H.val.ino, nInode, IF op = CLEAN THEN FDIN ELSE IUIN).err,
           H.val.out)

HfcDispatch(I, nInode, clustInd, op) ==
  IF I.err # "OK" THEN Res(I.S, I.err, NULL_CLUSTER)
  ELSE IF clustInd < N_DIRECT
  THEN HfcWrite(soHandleDirect(I.S, nInode, I.val, clustInd, op), nInode, op)
  ELSE IF clustInd < N_DIRECT + RPC
  THEN HfcWrite(soHandleSIndirect(I.S, nInode, I.val, clustInd, op), nInode, op)
  ELSE HfcWrite(soHandleDIndirect(I.S, nInode, I.val, clustInd, op), nInode, op)

soHandleFileCluster(S, nInode, clustInd, op) ==
  IF nInode >= S.sb.itotal \/ clustInd >= MAX_FILE_CLUSTERS THEN Res(S, "EINVAL", NULL_CLUSTER)
  ELSE IF op \notin HfcOps THEN Res(S, "EINVAL", NULL_CLUSTER)
  ELSE HfcDispatch(soReadInode(S, nInode, IF op = CLEAN THEN FDIN ELSE IUIN), nInode, clustInd, op)

(***************************************************************************)
(* soHandleFileClusters: the three loops visit the double-indirect zone,   *)
(* the single-indirect zone and the direct zone, in this order, with the   *)
(* i1, i2 and d[] of the inode copy read on entry.                         *)
(***************************************************************************)
LOAD_ERROR == 0 - 2

Range(a, b) == [i \in 1 .. (b - a + 1) |-> a + i - 1]

HfcsOrder(Inode, clustIndIn) ==
  (IF Inode.i2 # NULL_CLUSTER
   THEN Range(IF clustIndIn <= N_DIRECT + RPC THEN N_DIRECT + RPC ELSE clustIndIn,
              MAX_FILE_CLUSTERS - 1)
   ELSE <<>>)
  \o (IF Inode.i1 # NULL_CLUSTER
      THEN Range(IF clustIndIn <= N_DIRECT THEN N_DIRECT ELSE clustIndIn, N_DIRECT + RPC - 1)
      ELSE <<>>)
  \o Range(clustIndIn, N_DIRECT - 1)

\* the reference the loop tests before it calls soHandleFileCluster
HfcsSlot(S, Inode, clustIdx) ==
  IF clustIdx < N_DIRECT THEN Inode.d[clustIdx]
  ELSE IF clustIdx < N_DIRECT + RPC
  THEN IF Inode.i1 \notin ClustNums THEN LOAD_ERROR
       ELSE Refs(S, Inode.i1)[clustIdx - N_DIRECT]
  ELSE IF Inode.i2 \notin ClustNums THEN LOAD_ERROR
  ELSE LET dref == Refs(S, Inode.i2)[(clustIdx - N_DIRECT - RPC) \div RPC]
       IN IF dref = NULL_CLUSTER THEN NULL_CLUSTER
          ELSE IF dref \notin ClustNums THEN LOAD_ERROR
          ELSE Refs(S, dref)[(clustIdx - N_DIRECT - RPC) % RPC]

RECURSIVE HfcsLoop(_, _, _, _, _, _)
HfcsNext(H, nInode, Inode, order, k, op) ==
  IF H.err # "OK" THEN Res(H.S, H.err, 0)
  ELSE HfcsLoop(H.S, nInode, Inode, order, k + 1, op)

HfcsLoop(S, nInode, Inode, order, k, op) ==
  IF k > Len(order) THEN Res(S, "OK", 0)
  ELSE IF HfcsSlot(S, Inode, order[k]) = LOAD_ERROR THEN Res(S, "EINVAL", 0)
  ELSE IF HfcsSlot(S, Inode, order[k]) = NULL_CLUSTER
  THEN HfcsLoop(S, nInode, Inode, order, k + 1, op)
  ELSE HfcsNext(soHandleFileCluster(S, nInode, order[k], op), nInode, Inode, order, k, op)

HfcsFrom(I, nInode, clustIndIn, op) ==
  IF I.err # "OK" THEN Res(I.S, I.err, 0)
  ELSE HfcsLoop(I.S, nInode, I.val, HfcsOrder(I.val, clustIndIn), 1, op)

soHandleFileClusters(S, nInode, clustIndIn, op) ==
  IF nInode >= S.sb.itotal \/ clustIndIn >= MAX_FILE_CLUSTERS THEN Res(S, "EINVAL", 0)
  ELSE IF op \notin {FREE, FREE_CLEAN, CLEAN} THEN Res(S, "EINVAL", 0)
  ELSE HfcsFrom(soReadInode(S, nInode, IF op = CLEAN THEN FDIN ELSE IUIN), nInode, clustIndIn, op)

(***************************************************************************)
(* Reading and writing a file cluster.  A buffer is a cluster payload.     *)
(***************************************************************************)
RfcFrom(G) ==
  IF G.err # "OK" THEN Res(G.S, G.err, 0)
  ELSE IF G.val = NULL_CLUSTER THEN Res(G.S, "OK", [kind |-> "zero"])
  ELSE IF G.val \notin ClustNums THEN Res(G.S, "EINVAL", 0)
  ELSE Res(G.S, "OK", G.S.clust[G.val].info)

RfcGet(I, nInode, clustInd) ==
  IF I.err # "OK" THEN Res(I.S, I.err, 0)
  ELSE IF I.val.mode.flags \cap INODE_TYPE_MASK = {} THEN Res(I.S, "EIUININVAL", 0)
  ELSE RfcFrom(soHandleFileCluster(I.S, nInode, clustInd, GET))

soReadFileCluster(S, nInode, clustInd) ==
  IF nInode >= S.sb.itotal \/ clustInd >= MAX_FILE_CLUSTERS THEN Res(S, "EINVAL", 0)
  ELSE RfcGet(soReadInode(S, nInode, IUIN), nInode, clustInd)

WfcStore(A, buff) ==
  IF A.err # "OK" THEN Res(A.S, A.err, 0)
  ELSE IF A.val \notin ClustNums THEN Res(A.S, "EINVAL", 0)
  ELSE Res([A.S EXCEPT !.clust[A.val].info = buff], "OK", 0)

\* the cluster is allocated when the file has none at this index
WfcFrom(G, nInode, clustInd, buff) ==
  IF G.err # "OK" THEN Res(G.S, G.err, 0)
  ELSE IF G.val = NULL_CLUSTER
  THEN WfcStore(soHandleFileCluster(G.S, nInode, clustInd, ALLOC), buff)
  ELSE WfcStore(G, buff)

soWriteFileCluster(S, nInode, clustInd, buff) ==
  IF nInode >= S.sb.itotal \/ clustInd >= MAX_FILE_CLUSTERS THEN Res(S, "EINVAL", 0)
  ELSE WfcFrom(soHandleFileCluster(S, nInode, clustInd, GET), nInode, clustInd, buff)

(***************************************************************************)
(* Directories (level 4).  A directory payload is a table of DPC entries;  *)
(* a removed entry keeps its inode number and has an empty name.  The size *)
(* of a directory is counted in entries.  The functions are sequences of   *)
(* calls that each may fail: pc names the call whose result Rk is examined *)
(* next, the remaining parameters are the local variables.                 *)
(***************************************************************************)
NameArgs == {".", "..", "a", "b"}
\* sample names that are no legal base name
LongNames == {"a_name_of_more_than_MAX_NAME_characters"}
SlashNames == {"a/b", "/"}

DirView(info) ==
  IF info.kind = "dir" THEN info.de
  ELSE IF info.kind = "zero" THEN [i \in 0 .. (DPC - 1) |-> [nInode |-> 0, name |-> ""]]
  ELSE [i \in 0 .. (DPC - 1) |-> [nInode |-> itotal, name |-> "?"]]

DirInfo(de) == [kind |-> "dir", de |-> de]

IsDir(p_inode) == INODE_DIR \in p_inode.mode.flags

soQCheckDirCont(S, p_inode) ==
  IF ~IsDir(p_inode) THEN "ENOTDIR"
  ELSE IF /\ p_inode.size > 0 /\ p_inode.size % DPC = 0
     /\ p_inode.d[0] \in ClustNums
     /\ DirView(S.clust[p_inode.d[0]].info)[0].name = "."
     /\ DirView(S.clust[p_inode.d[0]].info)[0].nInode \in InodeNums
     /\ DirView(S.clust[p_inode.d[0]].info)[1].name = ".."
     /\ DirView(S.clust[p_inode.d[0]].info)[1].nInode \in InodeNums
  THEN "OK" ELSE "EDIRINVAL"

Min(set) == CHOOSE x \in set : \A y \in set : x <= y

\* the entries of one cluster that carry the name
Matches(de, name) == {i \in 0 .. (DPC - 1) : de[i].nInode # NULL_INODE /\ de[i].name = name}

\* the first free entry seen so far; index 0 cannot be recorded, 0 stands for none
FirstFree(de, clt_idx, frstFCDE) ==
  IF frstFCDE # 0 THEN frstFCDE
  ELSE IF \E i \in 0 .. (DPC - 1) : de[i].nInode = NULL_INODE /\ clt_idx * DPC + i # 0
  THEN Min({clt_idx * DPC + i : i \in {j \in 0 .. (DPC - 1) :
                                          de[j].nInode = NULL_INODE /\ clt_idx * DPC + j # 0}})
  ELSE 0

RECURSIVE GdeFrom(_, _, _, _, _, _, _)
GdeFrom(pc, Rk, nInodeDir, name, clt_idx, total_clts, frstFCDE) ==
  IF Rk.err # "OK" THEN Res(Rk.S, Rk.err, [nInodeEnt |-> NULL_INODE, idx |-> 0])
  ELSE IF pc = "X"
  THEN GdeFrom("inode", soReadInode(Rk.S, nInodeDir, IUIN), nInodeDir, name, 0, 0, 0)
  ELSE IF pc = "inode"
  THEN IF ~IsDir(Rk.val) THEN Res(Rk.S, "ENOTDIR", [nInodeEnt |-> NULL_INODE, idx |-> 0])
       ELSE GdeFrom("scan", Res(Rk.S, "OK", 0), nInodeDir, name, 0, Rk.val.size \div DPC, 0)
  ELSE IF pc = "scan"
  THEN IF clt_idx >= total_clts
       THEN Res(Rk.S, "ENOENT",
                [nInodeEnt |-> NULL_INODE,
                 idx |-> IF frstFCDE # 0 THEN frstFCDE ELSE total_clts * DPC])
       ELSE GdeFrom("cluster", soReadFileCluster(Rk.S, nInodeDir, clt_idx),
                    nInodeDir, name, clt_idx, total_clts, frstFCDE)
  ELSE IF Matches(DirView(Rk.val), name) # {}
  THEN Res(Rk.S, "OK",
           [nInodeEnt |-> DirView(Rk.val)[Min(Matches(DirView(Rk.val), name))].nInode,
            idx |-> clt_idx * DPC + Min(Matches(DirView(Rk.val), name))])
  ELSE GdeFrom("scan", Res(Rk.S, "OK", 0), nInodeDir, name, clt_idx + 1, total_clts,
               FirstFree(DirView(Rk.val), clt_idx, frstFCDE))

soGetDirEntryByName(S, nInodeDir, eName) ==
  IF eName \in LongNames THEN Res(S, "ENAMETOOLONG", [nInodeEnt |-> NULL_INODE, idx |-> 0])
  ELSE IF eName \in SlashNames \/ eName = ""
  THEN Res(S, "EINVAL", [nInodeEnt |-> NULL_INODE, idx |-> 0])
  ELSE GdeFrom("X", soAccessGranted(S, nInodeDir, X), nInodeDir, eName, 0, 0, 0)

\* strncmp(s, name, strlen(name)) == 0: the stored name is a prefix of s
DotPrefixes == {"", "."}
DotDotPrefixes == {"", ".", ".."}

RECURSIVE CdeFrom(_, _, _, _, _)
CdeFrom(pc, Rk, nInodeDir, currCluster, nDirClusters) ==
  IF Rk.err # "OK" THEN Res(Rk.S, Rk.err, 0)
  ELSE IF pc = "inode"
  THEN IF ~IsDir(Rk.val) THEN Res(Rk.S, "ENOTDIR", 0)
       ELSE IF soQCheckDirCont(Rk.S, Rk.val) # "OK" THEN Res(Rk.S, soQCheckDirCont(Rk.S, Rk.val), 0)
       ELSE CdeFrom("scan", Res(Rk.S, "OK", 0), nInodeDir, 0, Rk.val.size \div DPC)
  ELSE IF pc = "scan"
  THEN IF currCluster >= nDirClusters THEN Res(Rk.S, "OK", 0)
       ELSE CdeFrom("cluster", soReadFileCluster(Rk.S, nInodeDir, currCluster),
                    nInodeDir, currCluster, nDirClusters)
  ELSE IF currCluster = 0 /\ DirView(Rk.val)[0].name \notin DotPrefixes THEN Res(Rk.S, "EDIRINVAL", 0)
  ELSE IF currCluster = 0 /\ DirView(Rk.val)[1].name \notin DotDotPrefixes
  THEN Res(Rk.S, "EDIRINVAL", 0)
  ELSE IF \E i \in (IF currCluster = 0 THEN 2 ELSE 0) .. (DPC - 1) : DirView(Rk.val)[i].name # ""
  THEN Res(Rk.S, "ENOTEMPTY", 0)
  ELSE CdeFrom("scan", Res(Rk.S, "OK", 0), nInodeDir, currCluster + 1, nDirClusters)

\* soCheckDirectoryEmptiness that stops after the consistency check
soCheckDirectoryEmptiness_NoScan(S, nInodeDir) ==
  IF nInodeDir >= S.sb.itotal THEN Res(S, "EINVAL", 0)
  ELSE IF soReadInode(S, nInodeDir, IUIN).err # "OK"
  THEN Res(S, soReadInode(S, nInodeDir, IUIN).err, 0)
  ELSE IF ~IsDir(S.inode[nInodeDir]) THEN Res(S, "ENOTDIR", 0)
  ELSE Res(S, soQCheckDirCont(S, S.inode[nInodeDir]), 0)

soCheckDirectoryEmptiness(S, nInodeDir) ==
  IF nInodeDir >= S.sb.itotal THEN Res(S, "EINVAL", 0)
  ELSE CdeFrom("inode", soReadInode(S, nInodeDir, IUIN), nInodeDir, 0, 0)

\* the first cluster of a directory that is linked into nInodeDir
NewDirEntries(nInodeEnt, nInodeDir) ==
  [i \in 0 .. (DPC - 1) |->
     IF i = 0 THEN [nInode |-> nInodeEnt, name |-> "."]
     ELSE IF i = 1 THEN [nInode |-> nInodeDir, name |-> ".."]
     ELSE EmptyEntry]

\* the cluster that receives the new entry
PlacedEntries(buff, clusterOffset, eName, nInodeEnt) ==
  IF clusterOffset = 0
  THEN [i \in 0 .. (DPC - 1) |-> IF i = 0 THEN [nInode |-> nInodeEnt, name |-> eName]
                                   ELSE EmptyEntry]
  ELSE [DirView(buff) EXCEPT ![clusterOffset] = [nInode |-> nInodeEnt, name |-> eName]]

\* L = [nInodeDir, eName, nInodeEnt, InodeDir, newEntryIdx, halt]; the call is
\* cut short (power loss) when it reaches step L.halt, with the writes made so far
RECURSIVE AddDirEntryFrom(_, _, _)
AddDirEntryFrom(pc, Rk, L) ==
  IF pc = L.halt THEN Res(Rk.S, "HALT", 0)
  ELSE IF pc = "lookup"
  THEN IF Rk.err = "OK" THEN Res(Rk.S, "EEXIST", 0)
       ELSE IF Rk.err # "ENOENT" THEN Res(Rk.S, Rk.err, 0)
       ELSE IF Rk.val.idx >= DPC * MAX_FILE_CLUSTERS THEN Res(Rk.S, "EFBIG", 0)
       ELSE AddDirEntryFrom("X", soAccessGranted(Rk.S, L.nInodeDir, X),
                            [L EXCEPT !.newEntryIdx = Rk.val.idx])
  ELSE IF pc = "W" /\ Rk.err = "EACCES" THEN Res(Rk.S, "EPERM", 0)
  ELSE IF Rk.err # "OK" THEN Res(Rk.S, Rk.err, 0)
  ELSE IF pc = "dir"
  THEN IF Rk.val.mode.flags \cap INODE_TYPE_MASK # {INODE_DIR} THEN Res(Rk.S, "ENOTDIR", 0)
       ELSE IF soQCheckDirCont(Rk.S, Rk.val) # "OK" THEN Res(Rk.S, soQCheckDirCont(Rk.S, Rk.val), 0)
       ELSE AddDirEntryFrom("lookup", soGetDirEntryByName(Rk.S, L.nInodeDir, L.eName),
                            [L EXCEPT !.InodeDir = Rk.val])
  ELSE IF pc = "X"
  THEN AddDirEntryFrom("W", soAccessGranted(Rk.S, L.nInodeDir, W), L)
  ELSE IF pc = "W"
  THEN AddDirEntryFrom("ent", soReadInode(Rk.S, L.nInodeEnt, IUIN), L)
  ELSE IF pc = "ent"
  THEN IF Rk.val.refcount = 65535 THEN Res(Rk.S, "EMLINK", 0)
       ELSE IF Rk.val.mode.flags \cap INODE_TYPE_MASK # {INODE_DIR}
       THEN AddDirEntryFrom("place", Res(Rk.S, "OK", 0), L)
       ELSE IF L.InodeDir.refcount = 65535 THEN Res(Rk.S, "EMLINK", 0)
       ELSE AddDirEntryFrom("init",
                            soWriteFileCluster(Rk.S, L.nInodeEnt, 0,
                                               DirInfo(NewDirEntries(L.nInodeEnt, L.nInodeDir))),
                            L)
  ELSE IF pc = "init"
  THEN AddDirEntryFrom("ent2", soReadInode(Rk.S, L.nInodeEnt, IUIN), L)
  ELSE IF pc = "ent2"
  THEN AddDirEntryFrom("entw",
                       soWriteInode(Rk.S, [Rk.val EXCEPT !.size = DPC,
                                                         !.refcount = U16(@ + 1)],
                                    L.nInodeEnt, IUIN),
                       [L EXCEPT !.InodeDir.refcount = U16(@ + 1)])
  ELSE IF pc = "entw"
  THEN AddDirEntryFrom("place", soWriteInode(Rk.S, L.InodeDir, L.nInodeDir, IUIN), L)
  ELSE IF pc = "place"
  THEN AddDirEntryFrom("read", soReadFileCluster(Rk.S, L.nInodeDir, L.newEntryIdx \div DPC), L)
  ELSE IF pc = "read"
  THEN AddDirEntryFrom("write",
                       soWriteFileCluster(Rk.S, L.nInodeDir, L.newEntryIdx \div DPC,
                                          DirInfo(PlacedEntries(Rk.val, L.newEntryIdx % DPC,
                                                                L.eName, L.nInodeEnt))),
                       L)
  ELSE IF pc = "write"
  THEN IF L.newEntryIdx % DPC = 0
       THEN AddDirEntryFrom("dir2", soReadInode(Rk.S, L.nInodeDir, IUIN), L)
       ELSE AddDirEntryFrom("link", Res(Rk.S, "OK", 0), L)
  ELSE IF pc = "dir2"
  THEN AddDirEntryFrom("link",
                       soWriteInode(Rk.S, [Rk.val EXCEPT !.size = @ + DPC], L.nInodeDir, IUIN), L)
  ELSE IF pc = "link"
  THEN AddDirEntryFrom("ent3", soReadInode(Rk.S, L.nInodeEnt, IUIN), L)
  ELSE IF pc = "ent3"
  THEN AddDirEntryFrom("done",
                       soWriteInode(Rk.S, [Rk.val EXCEPT !.refcount = U16(@ + 1)],
                                    L.nInodeEnt, IUIN), L)
  ELSE Res(Rk.S, "OK", 0)

soAddDirEntry(S, nInodeDir, eName, nInodeEnt) ==
  IF nInodeDir >= S.sb.itotal \/ nInodeEnt >= S.sb.itotal THEN Res(S, "EINVAL", 0)
  ELSE IF eName \in SlashNames THEN Res(S, "EINVAL", 0)
  ELSE IF eName \in LongNames THEN Res(S, "ENAMETOOLONG", 0)
  ELSE AddDirEntryFrom("dir", soReadInode(S, nInodeDir, IUIN),
                       [nInodeDir |-> nInodeDir, eName |-> eName, nInodeEnt |-> nInodeEnt,
                        InodeDir |-> S.inode[0], newEntryIdx |-> 0, halt |-> ""])

\* soAddDirEntry cut short at step halt
AddDirEntryUpTo(S, nInodeDir, eName, nInodeEnt, halt) ==
  IF nInodeDir >= S.sb.itotal \/ nInodeEnt >= S.sb.itotal THEN Res(S, "EINVAL", 0)
  ELSE IF eName \in SlashNames THEN Res(S, "EINVAL", 0)
  ELSE IF eName \in LongNames THEN Res(S, "ENAMETOOLONG", 0)
  ELSE AddDirEntryFrom("dir", soReadInode(S, nInodeDir, IUIN),
                       [nInodeDir |-> nInodeDir, eName |-> eName, nInodeEnt |-> nInodeEnt,
                        InodeDir |-> S.inode[0], newEntryIdx |-> 0, halt |-> halt])

\* L = [nInodeDir, eName, inodeDir, inodeEnt, nInodeEnt, idx]
RECURSIVE RemoveDirEntryFrom(_, _, _)
RemoveDirEntryFrom(pc, Rk, L) ==
  IF pc = "W" /\ Rk.err = "EACCES" THEN Res(Rk.S, "EPERM", 0)
  ELSE IF Rk.err # "OK" THEN Res(Rk.S, Rk.err, 0)
  ELSE IF pc = "dir"
  THEN IF ~IsDir(Rk.val) THEN Res(Rk.S, "ENOTDIR", 0)
       ELSE RemoveDirEntryFrom("X", soAccessGranted(Rk.S, L.nInodeDir, X),
                               [L EXCEPT !.inodeDir = Rk.val])
  ELSE IF pc = "X"
  THEN RemoveDirEntryFrom("W", soAccessGranted(Rk.S, L.nInodeDir, W), L)
  ELSE IF pc = "W"
  THEN IF soQCheckDirCont(Rk.S, L.inodeDir) # "OK"
       THEN Res(Rk.S, soQCheckDirCont(Rk.S, L.inodeDir), 0)
       ELSE RemoveDirEntryFrom("lookup", soGetDirEntryByName(Rk.S, L.nInodeDir, L.eName), L)
  ELSE IF pc = "lookup"
  THEN RemoveDirEntryFrom("ent", soReadInode(Rk.S, Rk.val.nInodeEnt, IUIN),
                          [L EXCEPT !.nInodeEnt = Rk.val.nInodeEnt, !.idx = Rk.val.idx])
  ELSE IF pc = "ent"
  THEN IF IsDir(Rk.val)
       THEN RemoveDirEntryFrom("empty", soCheckDirectoryEmptiness(Rk.S, L.nInodeEnt), L)
       ELSE RemoveDirEntryFrom("empty", Res(Rk.S, "OK", 0), L)
  ELSE IF pc = "empty"
  THEN RemoveDirEntryFrom("read", soReadFileCluster(Rk.S, L.nInodeDir, L.idx \div DPC), L)
  ELSE IF pc = "read"
  THEN RemoveDirEntryFrom("write",
                          soWriteFileCluster(Rk.S, L.nInodeDir, L.idx \div DPC,
                                             DirInfo([DirView(Rk.val) EXCEPT
                                                        ![L.idx % DPC].name = ""])),
                          L)
  ELSE IF pc = "write"
  THEN RemoveDirEntryFrom("ent2", soReadInode(Rk.S, L.nInodeEnt, IUIN), L)
  ELSE IF pc = "ent2"
  THEN RemoveDirEntryFrom("entw",
                          soWriteInode(Rk.S,
                                       [Rk.val EXCEPT !.refcount =
                                          U16(@ - (IF IsDir(Rk.val) THEN 2 ELSE 1))],
                                       L.nInodeEnt, IUIN),
                          [L EXCEPT !.inodeEnt =
                             [Rk.val EXCEPT !.refcount =
                                U16(@ - (IF IsDir(Rk.val) THEN 2 ELSE 1))]])
  ELSE IF pc = "entw"
  THEN IF L.inodeEnt.refcount = 0
       THEN RemoveDirEntryFrom("freed", soHandleFileClusters(Rk.S, L.nInodeEnt, 0, FREE), L)
       ELSE RemoveDirEntryFrom("done", soWriteInode(Rk.S, L.inodeDir, L.nInodeDir, IUIN), L)
  ELSE IF pc = "freed"
  THEN RemoveDirEntryFrom("unlinked", soFreeInode(Rk.S, L.nInodeEnt), L)
  ELSE IF pc = "unlinked"
  THEN RemoveDirEntryFrom("done",
                          soWriteInode(Rk.S,
                                       IF IsDir(L.inodeEnt)
                                       THEN [L.inodeDir EXCEPT !.refcount = U16(@ - 1)]
                                       ELSE L.inodeDir,
                                       L.nInodeDir, IUIN), L)
  ELSE Res(Rk.S, "OK", 0)

soRemoveDirEntry(S, nInodeDir, eName) ==
  IF nInodeDir >= S.sb.itotal THEN Res(S, "EINVAL", 0)
  ELSE IF eName \in LongNames THEN Res(S, "ENAMETOOLONG", 0)
  ELSE IF eName \in SlashNames THEN Res(S, "ENOENT", 0)
  ELSE RemoveDirEntryFrom("dir", soReadInode(S, nInodeDir, IUIN),
                          [nInodeDir |-> nInodeDir, eName |-> eName, inodeDir |-> S.inode[0],
                           inodeEnt |-> S.inode[0], nInodeEnt |-> 0, idx |-> 0])

\* L = [nInodeDir, oldName, newName, idx]
RECURSIVE RenameDirEntryFrom(_, _, _)
RenameDirEntryFrom(pc, Rk, L) ==
  IF pc = "new"
  THEN IF Rk.err = "OK" THEN Res(Rk.S, "EEXIST", 0)
       ELSE RenameDirEntryFrom("read", soReadFileCluster(Rk.S, L.nInodeDir, L.idx \div DPC), L)
  ELSE IF pc = "W" /\ Rk.err = "EACCES" THEN Res(Rk.S, "EPERM", 0)
  ELSE IF Rk.err # "OK" THEN Res(Rk.S, Rk.err, 0)
  ELSE IF pc = "dir"
  THEN IF ~IsDir(Rk.val) THEN Res(Rk.S, "ENOTDIR", 0)
       ELSE IF soQCheckDirCont(Rk.S, Rk.val) # "OK" THEN Res(Rk.S, soQCheckDirCont(Rk.S, Rk.val), 0)
       ELSE RenameDirEntryFrom("X", soAccessGranted(Rk.S, L.nInodeDir, X), L)
  ELSE IF pc = "X"
  THEN RenameDirEntryFrom("W", soAccessGranted(Rk.S, L.nInodeDir, W), L)
  ELSE IF pc = "W"
  THEN RenameDirEntryFrom("old", soGetDirEntryByName(Rk.S, L.nInodeDir, L.oldName), L)
  ELSE IF pc = "old"
  THEN RenameDirEntryFrom("new", soGetDirEntryByName(Rk.S, L.nInodeDir, L.newName),
                          [L EXCEPT !.idx = Rk.val.idx])
  ELSE IF pc = "read"
  THEN RenameDirEntryFrom("done",
                          soWriteFileCluster(Rk.S, L.nInodeDir, L.idx \div DPC,
                                             DirInfo([DirView(Rk.val) EXCEPT
                                                        ![L.idx % DPC].name = L.newName])),
                          L)
  ELSE Res(Rk.S, "OK", 0)

soRenameDirEntry(S, nInodeDir, oldName, newName) ==
  IF nInodeDir >= S.sb.itotal THEN Res(S, "EINVAL", 0)
  ELSE IF oldName \in LongNames \/ newName \in LongNames THEN Res(S, "ENAMETOOLONG", 0)
  ELSE IF oldName \in SlashNames \/ newName \in SlashNames THEN Res(S, "EINVAL", 0)
  ELSE RenameDirEntryFrom("dir", soReadInode(S, nInodeDir, IUIN),
                          [nInodeDir |-> nInodeDir, oldName |-> oldName, newName |-> newName,
                           idx |-> 0])

(***************************************************************************)
(* Paths.  A path is the text of its components joined by '/', after a     *)
(* leading '/' when it is absolute; the empty text is the relative path    *)
(* of no component.  The payload of a symbolic link is the text of a path. *)
(***************************************************************************)
MAX_SYMLINK == 1

Path(abs, comps) == [abs |-> abs, comps |-> comps]
RootPath == Path(TRUE, <<>>)
DotPath == Path(FALSE, <<".">>)

dirname(p) ==
  IF Len(p.comps) <= 1 THEN (IF p.abs THEN RootPath ELSE DotPath)
  ELSE Path(p.abs, SubSeq(p.comps, 1, Len(p.comps) - 1))

basename(p) ==
  IF Len(p.comps) = 0 THEN (IF p.abs THEN "/" ELSE ".")
  ELSE p.comps[Len(p.comps)]

PathInfo(p) == [kind |-> "path", path |-> p]

\* the text a cluster holds, read as a path
PathView(info) ==
  IF info.kind = "path" THEN info.path
  ELSE IF info.kind = "zero" THEN Path(FALSE, <<>>)
  ELSE Path(FALSE, <<"?">>)

\* strncmp(prefix, symBuffer, strlen(prefix)) == 0 for the prefixes `..` and `.`
StartsWith(symBuffer, prefix) ==
  ~symBuffer.abs /\ Len(symBuffer.comps) > 0 /\ symBuffer.comps[1] = prefix

\* &symBuffer[strlen(prefix)]: the text after a first component `.` or `..`
AfterPrefix(symBuffer) ==
  IF Len(symBuffer.comps) = 1 THEN Path(FALSE, <<>>)
  ELSE Path(TRUE, Tail(symBuffer.comps))

\* symPath[0] = '/' followed by strncat onto the rest of symPath, which was
\* never written: the text is appended after whatever bytes symPath holds
\* up to its first zero byte, none (junk = FALSE) or some (junk = TRUE)
JunkName == "~"
SlashCat(symBuffer, junk) ==
  IF ~junk THEN Path(TRUE, symBuffer.comps)
  ELSE IF Len(symBuffer.comps) = 0 THEN Path(TRUE, <<JunkName>>)
  ELSE Path(TRUE, <<JunkName>> \o Tail(symBuffer.comps))

NoEnt == [nInodeDir |-> NULL_INODE, nInodeEnt |-> NULL_INODE, nSymLink |-> 0]

\* the outcome of a call that never returns: soTraversePath called on `.`
\* calls itself on dirname(`.`) = `.` before anything else, until the stack
\* is exhausted
SIGSEGV == "SIGSEGV"

\* L = [ePath, nRootDir, nSymLink, nInodeDir, nInodeEnt, basePath, symPath, junk]
RECURSIVE TraverseFrom(_, _, _)
TraverseFrom(pc, Rk, L) ==
  IF Rk.err # "OK" THEN Res(Rk.S, Rk.err, NoEnt)
  ELSE IF pc = "enter"
  THEN IF basename(L.ePath) \in LongNames THEN Res(Rk.S, "ENAMETOOLONG", NoEnt)
       ELSE IF dirname(L.ePath) = RootPath
       THEN TraverseFrom("parent",
                         Res(Rk.S, "OK", [NoEnt EXCEPT !.nInodeEnt = L.nRootDir,
                                                       !.nSymLink = L.nSymLink]),
                         [L EXCEPT !.basePath = IF basename(L.ePath) = "/" THEN "."
                                                ELSE basename(L.ePath)])
       ELSE IF dirname(L.ePath) = L.ePath THEN Res(Rk.S, SIGSEGV, NoEnt)
       ELSE TraverseFrom("parent",
                         TraverseFrom("enter", Rk, [L EXCEPT !.ePath = dirname(L.ePath)]),
                         [L EXCEPT !.basePath = basename(L.ePath)])
  ELSE IF pc = "parent"
  THEN TraverseFrom("dir", soReadInode(Rk.S, Rk.val.nInodeEnt, IUIN),
                    [L EXCEPT !.nInodeDir = Rk.val.nInodeEnt, !.nSymLink = Rk.val.nSymLink])
  ELSE IF pc = "dir"
  THEN IF Rk.val.mode.flags \cap INODE_TYPE_MASK # {INODE_DIR} THEN Res(Rk.S, "ENOTDIR", NoEnt)
       ELSE IF soQCheckDirCont(Rk.S, Rk.val) # "OK"
       THEN Res(Rk.S, soQCheckDirCont(Rk.S, Rk.val), NoEnt)
       ELSE TraverseFrom("X", soAccessGranted(Rk.S, L.nInodeDir, X), L)
  ELSE IF pc = "X"
  THEN TraverseFrom("lookup", soGetDirEntryByName(Rk.S, L.nInodeDir, L.basePath), L)
  ELSE IF pc = "lookup"
  THEN TraverseFrom("ent", soReadInode(Rk.S, Rk.val.nInodeEnt, IUIN),
                    [L EXCEPT !.nInodeEnt = Rk.val.nInodeEnt])
  ELSE IF pc = "ent"
  THEN IF Rk.val.mode.flags \cap INODE_TYPE_MASK # {INODE_SYMLINK}
       THEN Res(Rk.S, "OK", [nInodeDir |-> L.nInodeDir, nInodeEnt |-> L.nInodeEnt,
                             nSymLink |-> L.nSymLink])
       ELSE IF L.nSymLink >= MAX_SYMLINK THEN Res(Rk.S, "ELOOP", NoEnt)
       ELSE TraverseFrom("sym", soReadFileCluster(Rk.S, L.nInodeEnt, 0),
                         [L EXCEPT !.nSymLink = @ + 1])
  ELSE IF pc = "sym"
  THEN IF PathView(Rk.val).abs
       THEN TraverseFrom("done",
                         TraverseFrom("enter", Res(Rk.S, "OK", 0),
                                      [L EXCEPT !.ePath = PathView(Rk.val), !.nRootDir = 0]),
                         L)
       ELSE IF StartsWith(PathView(Rk.val), "..")
       THEN TraverseFrom("dotdot", soGetDirEntryByName(Rk.S, L.nInodeDir, ".."),
                         [L EXCEPT !.symPath = AfterPrefix(PathView(Rk.val))])
       ELSE IF StartsWith(PathView(Rk.val), ".")
       THEN TraverseFrom("done",
                         TraverseFrom("enter", Res(Rk.S, "OK", 0),
                                      [L EXCEPT !.ePath = AfterPrefix(PathView(Rk.val)),
                                                !.nRootDir = L.nInodeDir]),
                         L)
       ELSE TraverseFrom("done",
                         TraverseFrom("enter", Res(Rk.S, "OK", 0),
                                      [L EXCEPT !.ePath = SlashCat(PathView(Rk.val), L.junk),
                                                !.nRootDir = L.nInodeDir]),
                         L)
  ELSE IF pc = "dotdot"
  THEN TraverseFrom("done",
                    TraverseFrom("enter", Res(Rk.S, "OK", 0),
                                 [L EXCEPT !.ePath = L.symPath, !.nRootDir = Rk.val.nInodeEnt]),
                    L)
  ELSE Res(Rk.S, "OK", Rk.val)

soTraversePath(S, ePath, nSymLink, nRootDir, junk) ==
  TraverseFrom("enter", Res(S, "OK", 0),
               [ePath |-> ePath, nRootDir |-> nRootDir, nSymLink |-> nSymLink,
                nInodeDir |-> 0, nInodeEnt |-> 0, basePath |-> "", symPath |-> RootPath,
                junk |-> junk])

soGetDirEntryByPath(S, ePath, junk) ==
  IF ~ePath.abs THEN Res(S, "ERELPATH", NoEnt)
  ELSE soTraversePath(S, ePath, 0, 0, junk)

(***************************************************************************)
(* System calls that create a regular file and a symbolic link.            *)
(***************************************************************************)
\* a | b on the nine permission bits
RECURSIVE BitOr(_, _)
BitOr(a, b) ==
  IF a = 0 THEN b
  ELSE IF b = 0 THEN a
  ELSE 2 * BitOr(a \div 2, b \div 2) + (IF a % 2 = 1 \/ b % 2 = 1 THEN 1 ELSE 0)

\* a mode with none of the nine permission bits is refused
validMode(mode) == IF mode % 512 = 0 THEN 0 - 1 ELSE 0

\* the INODE_* permission bits of the S_I* bits of mode
getMode(mode) == mode % 512

\* soFreeInode and soCleanInode of the inode of a call that failed with error
MknodUndoClean(F, nInodeNod, error) ==
  IF F.err # "OK" THEN Res(F.S, F.err, 0)
  ELSE IF soCleanInode(F.S, nInodeNod).err # "OK"
  THEN Res(soCleanInode(F.S, nInodeNod).S, soCleanInode(F.S, nInodeNod).err, 0)
  ELSE Res(soCleanInode(F.S, nInodeNod).S, error, 0)

MknodUndo(S, nInodeNod, error) == MknodUndoClean(soFreeInode(S, nInodeNod), nInodeNod, error)

\* L = [nodName, mode, nInodeDir, nInodeNod]
RECURSIVE MknodFrom(_, _, _)
MknodFrom(pc, Rk, L) ==
  IF pc = "name"
  THEN IF Rk.err = "OK" THEN Res(Rk.S, "EEXIST", 0)
       ELSE IF Rk.err # "ENOENT" THEN Res(Rk.S, Rk.err, 0)
       ELSE MknodFrom("W", soAccessGranted(Rk.S, L.nInodeDir, W), L)
  ELSE IF pc = "W" /\ Rk.err = "EACCES" THEN Res(Rk.S, "EPERM", 0)
  ELSE IF pc \in {"read", "write", "add"} /\ Rk.err # "OK" THEN MknodUndo(Rk.S, L.nInodeNod, Rk.err)
  ELSE IF Rk.err # "OK" THEN Res(Rk.S, Rk.err, 0)
  ELSE IF pc = "dir"
  THEN MknodFrom("name", soGetDirEntryByName(Rk.S, Rk.val.nInodeEnt, L.nodName),
                 [L EXCEPT !.nInodeDir = Rk.val.nInodeEnt])
  ELSE IF pc = "W"
  THEN MknodFrom("alloc", soAllocInode(Rk.S, INODE_FILE), L)
  ELSE IF pc = "alloc"
  THEN MknodFrom("read", soReadInode(Rk.S, Rk.val, IUIN), [L EXCEPT !.nInodeNod = Rk.val])
  ELSE IF pc = "read"
  THEN MknodFrom("write",
                 soWriteInode(Rk.S, [Rk.val EXCEPT !.mode.perm = BitOr(@, getMode(L.mode))],
                              L.nInodeNod, IUIN), L)
  ELSE IF pc = "write"
  THEN MknodFrom("add", soAddDirEntry(Rk.S, L.nInodeDir, L.nodName, L.nInodeNod), L)
  ELSE Res(Rk.S, "OK", 0)

soMknod(S, ePath, mode, junk) ==
  IF ~ePath.abs THEN Res(S, "EINVAL", 0)
  ELSE IF validMode(mode) # 0 THEN Res(S, "EINVAL", 0)
  ELSE MknodFrom("dir", soGetDirEntryByPath(S, dirname(ePath), junk),
                 [nodName |-> basename(ePath), mode |-> mode, nInodeDir |-> 0, nInodeNod |-> 0])

\* strlen of the text of a path
NameLen(name) == IF name = ".." THEN 2 ELSE 1
RECURSIVE CompsLen(_)
CompsLen(comps) ==
  IF Len(comps) = 0 THEN 0
  ELSE NameLen(Head(comps)) + (IF Len(comps) > 1 THEN 1 ELSE 0) + CompsLen(Tail(comps))
PathLen(p) == (IF p.abs THEN 1 ELSE 0) + CompsLen(p.comps)

\* L = [effPath, ePath, symName, junk, nInodeDir, nInodeSym]
RECURSIVE SymlinkFrom(_, _, _)
SymlinkFrom(pc, Rk, L) ==
  IF pc = "exists"
  THEN IF Rk.err = "OK" THEN Res(Rk.S, "EEXIST", 0)
       ELSE IF Rk.err # "ENOENT" THEN Res(Rk.S, Rk.err, 0)
       ELSE SymlinkFrom("parent", soGetDirEntryByPath(Rk.S, dirname(L.ePath), L.junk), L)
  ELSE IF pc = "W" /\ Rk.err = "EACCES" THEN Res(Rk.S, "EPERM", 0)
  ELSE IF Rk.err # "OK" THEN Res(Rk.S, Rk.err, 0)
  ELSE IF pc = "parent"
  THEN SymlinkFrom("dir", soReadInode(Rk.S, Rk.val.nInodeEnt, IUIN),
                   [L EXCEPT !.nInodeDir = Rk.val.nInodeEnt])
  ELSE IF pc = "dir"
  THEN SymlinkFrom("X", soAccessGranted(Rk.S, L.nInodeDir, X), L)
  ELSE IF pc = "X"
  THEN SymlinkFrom("W", soAccessGranted(Rk.S, L.nInodeDir, W), L)
  ELSE IF pc = "W"
  THEN SymlinkFrom("alloc", soAllocInode(Rk.S, INODE_SYMLINK), L)
  ELSE IF pc = "alloc"
  THEN SymlinkFrom("sym", soReadInode(Rk.S, Rk.val, IUIN), [L EXCEPT !.nInodeSym = Rk.val])
  ELSE IF pc = "sym"
  THEN SymlinkFrom("modew",
                   soWriteInode(Rk.S, [Rk.val EXCEPT !.mode.perm = BitOr(@, 511)],
                                L.nInodeSym, IUIN), L)
  ELSE IF pc = "modew"
  THEN SymlinkFrom("content", soWriteFileCluster(Rk.S, L.nInodeSym, 0, PathInfo(L.effPath)), L)
  ELSE IF pc = "content"
  THEN SymlinkFrom("sym2", soReadInode(Rk.S, L.nInodeSym, IUIN), L)
  ELSE IF pc = "sym2"
  THEN SymlinkFrom("sizew",
                   soWriteInode(Rk.S, [Rk.val EXCEPT !.size = PathLen(L.effPath)],
                                L.nInodeSym, IUIN), L)
  ELSE IF pc = "sizew"
  THEN SymlinkFrom("add", soAddDirEntry(Rk.S, L.nInodeDir, L.symName, L.nInodeSym), L)
  ELSE Res(Rk.S, "OK", 0)

soSymlink(S, effPath, ePath, junk) ==
  IF ~ePath.abs THEN Res(S, "EINVAL", 0)
  ELSE IF basename(ePath) \in LongNames THEN Res(S, "ENAMETOOLONG", 0)
  ELSE IF effPath = dirname(ePath) THEN Res(S, "ELOOP", 0)
  ELSE SymlinkFrom("exists", soGetDirEntryByPath(S, ePath, junk),
                   [effPath |-> effPath, ePath |-> ePath, symName |-> basename(ePath),
                    junk |-> junk, nInodeDir |-> 0, nInodeSym |-> 0])

(***************************************************************************)
(* System calls that read and write the bytes of a regular file.  A        *)
(* cluster holds BSLPC bytes; the buffer of soWrite holds count bytes of   *)
(* value WriteByte.                                                        *)
(***************************************************************************)
MAX_FILE_SIZE == BSLPC * MAX_FILE_CLUSTERS
WriteByte == 1

DataInfo(bytes) == [kind |-> "data", bytes |-> bytes]

\* the bytes of a cluster payload
DataView(info) ==
  IF info.kind = "data" THEN info.bytes
  ELSE IF info.kind = "zero" THEN [i \in 0 .. (BSLPC - 1) |-> 0]
  ELSE [i \in 0 .. (BSLPC - 1) |-> 2]

soConvertBPIDC(p) ==
  IF p >= MAX_FILE_SIZE THEN [err |-> "EINVAL", clustInd |-> 0, offset |-> 0]
  ELSE [err |-> "OK", clustInd |-> p \div BSLPC, offset |-> p % BSLPC]

\* memcpy(buff + readBytes, cluster + from, n)
Copied(buff, cluster, from, n) == buff \o [i \in 1 .. n |-> DataView(cluster)[from + i - 1]]

NoBytes == [n |-> 0, buff |-> <<>>]

\* L = [nInodeEnt, pos, size, firstClst, firstByte, lastClst, lastByte, buff]
RECURSIVE ReadFrom(_, _, _)
ReadFrom(pc, Rk, L) ==
  IF Rk.err # "OK" THEN Res(Rk.S, Rk.err, NoBytes)
  ELSE IF pc = "path"
  THEN ReadFrom("inode", soReadInode(Rk.S, Rk.val.nInodeEnt, IUIN),
                [L EXCEPT !.nInodeEnt = Rk.val.nInodeEnt])
  ELSE IF pc = "inode"
  THEN IF soQCheckDirCont(Rk.S, Rk.val) = "OK" THEN Res(Rk.S, "EISDIR", NoBytes)
       ELSE IF soQCheckDirCont(Rk.S, Rk.val) # "ENOTDIR"
       THEN Res(Rk.S, soQCheckDirCont(Rk.S, Rk.val), NoBytes)
       ELSE IF L.pos > Rk.val.size THEN Res(Rk.S, "EFBIG", NoBytes)
       ELSE IF soConvertBPIDC(L.pos).err # "OK"
       THEN Res(Rk.S, soConvertBPIDC(L.pos).err, NoBytes)
       ELSE IF soConvertBPIDC(L.size).err # "OK"
       THEN Res(Rk.S, soConvertBPIDC(L.size).err, NoBytes)
       ELSE ReadFrom("first", soReadFileCluster(Rk.S, L.nInodeEnt, soConvertBPIDC(L.pos).clustInd),
                     [L EXCEPT !.firstClst = soConvertBPIDC(L.pos).clustInd,
                               !.firstByte = soConvertBPIDC(L.pos).offset,
                               !.lastClst = soConvertBPIDC(L.size).clustInd,
                               !.lastByte = soConvertBPIDC(L.size).offset])
  ELSE IF pc = "first"
  THEN IF L.firstClst = L.lastClst
       THEN Res(Rk.S, "OK",
                [n |-> L.lastByte - L.firstByte,
                 buff |-> Copied(<<>>, Rk.val, L.firstByte, L.lastByte - L.firstByte)])
       ELSE ReadFrom("next", soReadFileCluster(Rk.S, L.nInodeEnt, L.firstClst + 1),
                     [L EXCEPT !.firstClst = @ + 1,
                               !.buff = Copied(<<>>, Rk.val, L.firstByte, BSLPC - L.firstByte)])
  ELSE IF L.firstClst < L.lastClst
  THEN ReadFrom("next", soReadFileCluster(Rk.S, L.nInodeEnt, L.firstClst + 1),
                [L EXCEPT !.firstClst = @ + 1, !.buff = Copied(L.buff, Rk.val, 0, BSLPC)])
  ELSE Res(Rk.S, "OK",
           [n |-> Len(L.buff) + L.lastByte, buff |-> Copied(L.buff, Rk.val, 0, L.lastByte)])

soRead(S, ePath, count, pos, junk) ==
  ReadFrom("path", soGetDirEntryByPath(S, ePath, junk),
           [nInodeEnt |-> 0, pos |-> pos, size |-> pos + count, firstClst |-> 0,
            firstByte |-> 0, lastClst |-> 0, lastByte |-> 0, buff |-> <<>>])

\* memmove(c_buff + offset, buff + i, n)
Moved(c_buff, offset, n) ==
  DataInfo([k \in 0 .. (BSLPC - 1) |->
              IF k >= offset /\ k < offset + n THEN WriteByte ELSE DataView(c_buff)[k]])

\* L = [nInodeEnt, count, pos, nCluster, offset, nClusterLast, offsetLast, i]
RECURSIVE WriteFrom(_, _, _)
WriteFrom(pc, Rk, L) ==
  IF Rk.err # "OK" THEN Res(Rk.S, Rk.err, 0)
  ELSE IF pc = "path"
  THEN WriteFrom("inode", soReadInode(Rk.S, Rk.val.nInodeEnt, IUIN),
                 [L EXCEPT !.nInodeEnt = Rk.val.nInodeEnt])
  ELSE IF pc = "inode"
  THEN IF soQCheckDirCont(Rk.S, Rk.val) = "OK" THEN Res(Rk.S, "EISDIR", 0)
       ELSE IF soQCheckDirCont(Rk.S, Rk.val) # "ENOTDIR"
       THEN Res(Rk.S, soQCheckDirCont(Rk.S, Rk.val), 0)
       ELSE IF L.count = 0 THEN Res(Rk.S, "OK", 0)
       ELSE IF L.pos + L.count > Rk.val.size
       THEN WriteFrom("sized",
                      soWriteInode(Rk.S, [Rk.val EXCEPT !.size = L.pos + L.count],
                                   L.nInodeEnt, IUIN), L)
       ELSE WriteFrom("sized", Res(Rk.S, "OK", 0), L)
  ELSE IF pc = "sized"
  THEN IF soConvertBPIDC(L.pos).err # "OK" THEN Res(Rk.S, soConvertBPIDC(L.pos).err, 0)
       ELSE IF soConvertBPIDC(L.pos + L.count - 1).err # "OK"
       THEN Res(Rk.S, soConvertBPIDC(L.pos + L.count - 1).err, 0)
       ELSE WriteFrom("first",
                      soReadFileCluster(Rk.S, L.nInodeEnt, soConvertBPIDC(L.pos).clustInd),
                      [L EXCEPT !.nCluster = soConvertBPIDC(L.pos).clustInd,
                                !.offset = soConvertBPIDC(L.pos).offset,
                                !.nClusterLast = soConvertBPIDC(L.pos + L.count - 1).clustInd,
                                !.offsetLast = soConvertBPIDC(L.pos + L.count - 1).offset])
  ELSE IF pc = "first"
  THEN IF L.nCluster = L.nClusterLast
       THEN WriteFrom("last",
                      soWriteFileCluster(Rk.S, L.nInodeEnt, L.nCluster,
                                         Moved(Rk.val, L.offset, L.count)),
                      [L EXCEPT !.i = L.count])
       ELSE WriteFrom("written",
                      soWriteFileCluster(Rk.S, L.nInodeEnt, L.nCluster,
                                         Moved(Rk.val, L.offset, BSLPC - L.offset)),
                      [L EXCEPT !.i = BSLPC - L.offset])
  ELSE IF pc = "written"
  THEN WriteFrom("next", soReadFileCluster(Rk.S, L.nInodeEnt, L.nCluster + 1),
                 [L EXCEPT !.nCluster = @ + 1])
  ELSE IF pc = "next"
  THEN IF L.nCluster < L.nClusterLast
       THEN WriteFrom("written",
                      soWriteFileCluster(Rk.S, L.nInodeEnt, L.nCluster, Moved(Rk.val, 0, BSLPC)),
                      [L EXCEPT !.i = @ + BSLPC])
       ELSE WriteFrom("last",
                      soWriteFileCluster(Rk.S, L.nInodeEnt, L.nCluster,
                                         Moved(Rk.val, 0, L.offsetLast + 1)),
                      [L EXCEPT !.i = @ + L.offsetLast + 1])
  ELSE Res(Rk.S, "OK", L.i)

soWrite(S, ePath, count, pos, junk) ==
  IF pos + count > MAX_FILE_SIZE THEN Res(S, "EFBIG", 0)
  ELSE WriteFrom("path", soGetDirEntryByPath(S, ePath, junk),
                 [nInodeEnt |-> 0, count |-> count, pos |-> pos, nCluster |-> 0, offset |-> 0,
                  nClusterLast |-> 0, offsetLast |-> 0, i |-> 0])

(***************************************************************************)
(* The state machine.  ret records the last call: its name, its arguments  *)
(* (a, b integers, s, s2 strings), the status returned and the output value.  *)
(***************************************************************************)
Cur == [sb |-> sb, inode |-> inode, clust |-> clust]

NoCall == [op |-> "mkfs", a |-> 0, b |-> 0, s |-> "", s2 |-> "", err |-> "OK", val |-> 0]

Init ==
  /\ sb = mkfs.sb
  /\ inode = mkfs.inode
  /\ clust = mkfs.clust
  /\ ret = NoCall
  /\ nops = 0
  /\ cred = [uid |-> 0, gid |-> 0]

CommitNames(Rt, op, a, b, str, str2) ==
  /\ sb' = Rt.S.sb
  /\ inode' = Rt.S.inode
  /\ clust' = Rt.S.clust
  /\ ret' = [op |-> op, a |-> a, b |-> b, s |-> str, s2 |-> str2, err |-> Rt.err, val |-> Rt.val]
  /\ nops' = nops + 1
  /\ cred' = cred

Commit(Rt, op, a, b, str) == CommitNames(Rt, op, a, b, str, "")

TypeArgs == INODE_TYPE_MASK \cup {"NONE"}
InodeArgs == 0 .. itotal
ClustArgs == 0 .. dzone_total

AllocInode(max) ==
  /\ nops < max
  /\ \E type \in TypeArgs : Commit(soAllocInode(Cur, type), "soAllocInode", 0, 0, type)

FreeInode(max) ==
  /\ nops < max
  /\ \E n \in InodeArgs : Commit(soFreeInode(Cur, n), "soFreeInode", n, 0, "")

CleanInode(max) ==
  /\ nops < max
  /\ \E n \in InodeArgs : Commit(soCleanInode(Cur, n), "soCleanInode", n, 0, "")

AllocDataCluster(max) ==
  /\ nops < max
  /\ \E n \in InodeArgs : Commit(soAllocDataCluster(Cur, n), "soAllocDataCluster", n, 0, "")

FreeDataCluster(max) ==
  /\ nops < max
  /\ \E c \in ClustArgs : Commit(soFreeDataCluster(Cur, c), "soFreeDataCluster", c, 0, "")

NextInode == AllocInode(MaxOps) \/ FreeInode(MaxOps) \/ CleanInode(MaxOps)
SpecInode == Init /\ [][NextInode]_vars

NextDZ == AllocDataCluster(MaxOps) \/ FreeDataCluster(MaxOps) \/ AllocInode(MaxOps)
SpecDZ == Init /\ [][NextDZ]_vars


ClustIndArgs == 0 .. (MAX_FILE_CLUSTERS - 1)
\* inode 0 is in use, inode 1 is free
HfcInodeArgs == 0 .. 1

HandleFileCluster(max) ==
  /\ nops < max
  /\ \E n \in HfcInodeArgs, i \in ClustIndArgs, op \in HfcOps :
       Commit(soHandleFileCluster(Cur, n, i, op), "soHandleFileCluster", n, i, op)

HandleFileClusters(max) ==
  /\ nops < max
  /\ \E n \in HfcInodeArgs, i \in ClustIndArgs, op \in {FREE, FREE_CLEAN, CLEAN} :
       Commit(soHandleFileClusters(Cur, n, i, op), "soHandleFileClusters", n, i, op)

NextHFC ==
  \/ HandleFileCluster(MaxHfcOps) \/ HandleFileClusters(MaxHfcOps)
  \/ AllocDataCluster(MaxHfcOps) \/ FreeDataCluster(MaxHfcOps)
SpecHFC == Init /\ [][NextHFC]_vars

\* inode 0 is the root directory; inodes 1 and 2 are the first two that soAllocInode hands out
DirArgs == 0 .. 2
EntArgs == 0 .. 2

AddDirEntry(max) ==
  /\ nops < max
  /\ \E d \in DirArgs, name \in NameArgs, e \in EntArgs :
       CommitNames(soAddDirEntry(Cur, d, name, e), "soAddDirEntry", d, e, name, "")

RemoveDirEntry(max) ==
  /\ nops < max
  /\ \E d \in DirArgs, name \in NameArgs :
       CommitNames(soRemoveDirEntry(Cur, d, name), "soRemoveDirEntry", d, 0, name, "")

RenameDirEntry(max) ==
  /\ nops < max
  /\ \E d \in DirArgs, oldName \in NameArgs, newName \in NameArgs :
       CommitNames(soRenameDirEntry(Cur, d, oldName, newName), "soRenameDirEntry", d, 0,
                   oldName, newName)

NextDir ==
  \/ AllocInode(MaxDirOps) \/ FreeInode(MaxDirOps) \/ CleanInode(MaxDirOps)
  \/ FreeDataCluster(MaxDirOps)
  \/ AddDirEntry(MaxDirOps) \/ RemoveDirEntry(MaxDirOps) \/ RenameDirEntry(MaxDirOps)
SpecDir == Init /\ [][NextDir]_vars

\* the two cluster allocator operations alone
NextCache == AllocDataCluster(MaxCacheOps) \/ FreeDataCluster(MaxCacheOps)
SpecCache == Init /\ [][NextCache]_vars

\* soAccessGranted as a function of the caller and of the mode, owner and
\* group of inode 0: every permission mask, callers that are root, the owner,
\* in the group of the inode, or neither
UidArgs == 0 .. 2
GidArgs == 1 .. 2
PermArgs == 0 .. 511
OpArgs == 0 .. 8

InitAccess ==
  /\ sb = mkfs.sb
  /\ inode \in {[mkfs.inode EXCEPT ![0].mode.perm = p, ![0].owner = 1, ![0].group = 1] :
                  p \in PermArgs}
  /\ clust = mkfs.clust
  /\ ret = NoCall
  /\ nops = 0
  /\ cred \in [uid : UidArgs, gid : GidArgs]

AccessGranted(max) ==
  /\ nops < max
  /\ \E n \in 0 .. 1, op \in OpArgs :
       Commit(soAccessGranted(Cur, n, op), "soAccessGranted", n, op, "")

NextAccess == AccessGranted(MaxAccessOps)
SpecAccess == InitAccess /\ [][NextAccess]_vars

\* the directory operations with the emptiness check as an operation of its own
CheckDirectoryEmptiness(max) ==
  /\ nops < max
  /\ \E d \in DirArgs :
       Commit(soCheckDirectoryEmptiness(Cur, d), "soCheckDirectoryEmptiness", d, 0, "")

NextEmpty ==
  \/ AllocInode(MaxEmptyOps) \/ AddDirEntry(MaxEmptyOps) \/ RemoveDirEntry(MaxEmptyOps)
  \/ RenameDirEntry(MaxEmptyOps) \/ CheckDirectoryEmptiness(MaxEmptyOps)
SpecEmpty == Init /\ [][NextEmpty]_vars

\* the system calls on paths, called by root or by an ordinary user
CredArgs == {[uid |-> 0, gid |-> 0], [uid |-> 1, gid |-> 1]}
PathArgs == {Path(TRUE, <<"a">>), Path(TRUE, <<"s">>), Path(TRUE, <<"t">>)}
OtherPathArgs == {RootPath, Path(FALSE, <<"a">>)}
NodePathArgs == {Path(TRUE, <<"a">>)}
LinkPathArgs == {Path(TRUE, <<"s">>), Path(TRUE, <<"t">>)}
TargetArgs == {Path(TRUE, <<"a">>), Path(TRUE, <<"s">>), Path(FALSE, <<".">>),
               Path(FALSE, <<"a">>), Path(FALSE, <<"..", "a">>)}
ModeArgs == {0, 128, 256}
CountArgs == 0 .. MaxCount
PosArgs == 0 .. 1

\* the record of a call: paths for both names, a record for the output
NoPath == Path(FALSE, <<>>)
Counted(Rt) == [Rt EXCEPT !.val = [n |-> @]]

InitPath ==
  /\ sb = mkfs.sb
  /\ inode = mkfs.inode
  /\ clust = mkfs.clust
  /\ ret = [NoCall EXCEPT !.s = NoPath, !.s2 = NoPath, !.val = [n |-> 0]]
  /\ nops = 0
  /\ cred \in CredArgs

Mknod(max) ==
  /\ nops < max
  /\ \E ePath \in NodePathArgs, mode \in ModeArgs, junk \in BOOLEAN :
       CommitNames(Counted(soMknod(Cur, ePath, mode, junk)), "soMknod", mode, 0, ePath, NoPath)

Symlink(max) ==
  /\ nops < max
  /\ \E effPath \in TargetArgs, ePath \in LinkPathArgs, junk \in BOOLEAN :
       CommitNames(Counted(soSymlink(Cur, effPath, ePath, junk)), "soSymlink", 0, 0, ePath,
                   effPath)

GetDirEntryByPath(max) ==
  /\ nops < max
  /\ \E ePath \in PathArgs \cup OtherPathArgs, junk \in BOOLEAN :
       CommitNames(soGetDirEntryByPath(Cur, ePath, junk), "soGetDirEntryByPath", 0, 0, ePath,
                   NoPath)

Read(max) ==
  /\ nops < max
  /\ \E ePath \in PathArgs, count \in CountArgs, pos \in PosArgs, junk \in BOOLEAN :
       CommitNames(soRead(Cur, ePath, count, pos, junk), "soRead", count, pos, ePath, NoPath)

Write(max) ==
  /\ nops < max
  /\ \E ePath \in PathArgs, count \in CountArgs, pos \in PosArgs, junk \in BOOLEAN :
       CommitNames(Counted(soWrite(Cur, ePath, count, pos, junk)), "soWrite", count, pos, ePath,
                   NoPath)

NextPath ==
  \/ Mknod(MaxPathOps) \/ Symlink(MaxPathOps) \/ GetDirEntryByPath(MaxPathOps)
  \/ Read(MaxPathOps) \/ Write(MaxPathOps)
SpecPath == InitPath /\ [][NextPath]_vars
(***************************************************************************)
(* Walks of the two free lists.                                            *)
(***************************************************************************)
RECURSIVE WalkInodes(_, _, _)
WalkInodes(n, acc, fuel) ==
  IF n \notin InodeNums \/ fuel = 0 THEN [ok |-> FALSE, seq |-> acc]
  ELSE IF n = sb.itail THEN [ok |-> TRUE, seq |-> Append(acc, n)]
  ELSE WalkInodes(inode[n].vD1, Append(acc, n), fuel - 1)

InodeFreeList ==
  IF sb.ihead = NULL_INODE THEN [ok |-> sb.itail = NULL_INODE, seq |-> <<>>]
  ELSE WalkInodes(sb.ihead, <<>>, itotal)

RECURSIVE WalkClusters(_, _, _)
WalkClusters(c, acc, fuel) ==
  IF c \notin ClustNums \/ fuel = 0 THEN [ok |-> FALSE, seq |-> acc]
  ELSE IF c = sb.dtail THEN [ok |-> TRUE, seq |-> Append(acc, c)]
  ELSE WalkClusters(clust[c].next, Append(acc, c), fuel - 1)

ClusterFreeList ==
  IF sb.dhead = NULL_CLUSTER THEN [ok |-> sb.dtail = NULL_CLUSTER, seq |-> <<>>]
  ELSE WalkClusters(sb.dhead, <<>>, dzone_total)

\* C1: ifree equals the number of inodes on the walk from ihead to itail,
\* after every soAllocInode / soFreeInode / soCleanInode call, failed or not.
C1_IfreeIsListLength ==
  InodeFreeList.ok /\ sb.ifree = Len(InodeFreeList.seq)

C1_Witness ==
  /\ ret.op = "soFreeInode" /\ ret.err = "OK"
  /\ sb.ifree = 2 /\ sb.ihead = 3 /\ sb.itail = 1

\* C7: the inode free list is an acyclic doubly-linked chain whose nodes
\* all carry the free bit; ihead, itail and ifree are null/zero together.
C7_InodeListWellFormed ==
  LET L == InodeFreeList.seq
  IN /\ InodeFreeList.ok
     /\ \A i, j \in 1 .. Len(L) : i # j => L[i] # L[j]
     /\ \A i \in 1 .. Len(L) : INODE_FREE \in inode[L[i]].mode.flags
     /\ sb.ihead # NULL_INODE => inode[sb.ihead].vD2 = NULL_INODE
     /\ sb.itail # NULL_INODE => inode[sb.itail].vD1 = NULL_INODE
     /\ \A i \in 1 .. (Len(L) - 1) :
          /\ inode[L[i]].vD1 = L[i + 1]
          /\ inode[L[i + 1]].vD2 = L[i]
     /\ (sb.ihead = NULL_INODE) = (sb.itail = NULL_INODE)
     /\ (sb.itail = NULL_INODE) = (sb.ifree = 0)

C7_Witness ==
  /\ ret.op = "soFreeInode" /\ ret.err = "OK"
  /\ sb.ifree = 1 /\ sb.ihead = sb.itail /\ sb.ihead = 2

\* the clusters that are free: in a cache or on the general list
FreeClusters ==
  {c \in ClustNums : InRetriev(sb, c) \/ InInsert(sb, c)}
    \cup {ClusterFreeList.seq[i] : i \in 1 .. Len(ClusterFreeList.seq)}

Headers(cl) == [c \in ClustNums |-> [prev |-> cl[c].prev, next |-> cl[c].next, stat |-> cl[c].stat]]

InUse(n) == n \in InodeNums /\ INODE_FREE \notin inode[n].mode.flags

\* C2: dzone_free equals the occupied part of the retrieval cache plus the
\* occupied part of the insertion cache plus the length of the general list,
\* after every soAllocDataCluster / soFreeDataCluster call, failed or not.
C2_DzoneFreeAccounting ==
  /\ ClusterFreeList.ok
  /\ sb.dzone_free = (DZONE_CACHE_SIZE - sb.dzone_retriev.cache_idx)
                       + sb.dzone_insert.cache_idx + Len(ClusterFreeList.seq)

C2_Witness ==
  /\ ret.op = "soFreeDataCluster" /\ ret.err = "OK"
  /\ sb.dzone_insert.cache_idx = 1
  /\ sb.dtail # NULL_CLUSTER /\ sb.dtail # fillInSuperBlock.dtail
  /\ sb.dzone_retriev.cache_idx < DZONE_CACHE_SIZE

\* C8: soFreeDataCluster fails and leaves the superblock and every cluster
\* header as they were when the cluster is 0, out of range or not allocated
\* (in a cache or on the general list); of two consecutive frees of one
\* cluster at most one succeeds.
C8_FreeRejectsUnallocated ==
  [][ret'.op = "soFreeDataCluster" =>
        /\ (ret'.a = 0 \/ ret'.a >= sb.dzone_total \/ ret'.a \in FreeClusters)
              => (ret'.err # "OK" /\ sb' = sb /\ Headers(clust') = Headers(clust))
        /\ (ret.op = "soFreeDataCluster" /\ ret.err = "OK" /\ ret.a = ret'.a)
              => ret'.err # "OK"]_vars

C8_Witness ==
  /\ ret.op = "soFreeDataCluster" /\ ret.err = "EINVAL"
  /\ InInsert(sb, ret.a)

RefPlaces ==
  {<<n, "d", j, 0>> : n \in InodeNums, j \in 0 .. (N_DIRECT - 1)}
    \cup {<<n, z, 0, 0>> : n \in InodeNums, z \in {"i1", "i2"}}
    \cup {<<n, z, j, 0>> : n \in InodeNums, z \in {"s", "o"}, j \in 0 .. (RPC - 1)}
    \cup {<<n, "l", j, k>> : n \in InodeNums, j \in 0 .. (RPC - 1), k \in 0 .. (RPC - 1)}

RefsOf(c) == IF c \in ClustNums THEN Refs(Cur, c) ELSE NullRefs

RefAt(p) ==
  IF ~InUse(p[1]) THEN NULL_CLUSTER
  ELSE IF p[2] = "d" THEN inode[p[1]].d[p[3]]
  ELSE IF p[2] = "i1" THEN inode[p[1]].i1
  ELSE IF p[2] = "i2" THEN inode[p[1]].i2
  ELSE IF p[2] = "s" THEN RefsOf(inode[p[1]].i1)[p[3]]
  ELSE IF p[2] = "o" THEN RefsOf(inode[p[1]].i2)[p[3]]
  ELSE RefsOf(RefsOf(inode[p[1]].i2)[p[3]])[p[4]]

\* C3: no data cluster is referenced from two places of the reference trees
\* of the inodes in use, whatever sequence of soHandleFileCluster,
\* soHandleFileClusters, soAllocDataCluster and soFreeDataCluster calls ran.
C3_NoSharedCluster ==
  \A c \in ClustNums : Cardinality({p \in RefPlaces : RefAt(p) = c}) <= 1

(***************************************************************************)
(* The directory tree as it is stored on the volume.                       *)
(***************************************************************************)
\* the data cluster at index k of the file of in-use inode n
FileClusterOf(n, k) ==
  IF k < N_DIRECT THEN RefAt(<<n, "d", k, 0>>)
  ELSE IF k < N_DIRECT + RPC THEN RefAt(<<n, "s", k - N_DIRECT, 0>>)
  ELSE RefAt(<<n, "l", (k - N_DIRECT - RPC) \div RPC, (k - N_DIRECT - RPC) % RPC>>)

InUseDir(n) == InUse(n) /\ IsDir(inode[n])

\* the slots <<directory, cluster index, offset>> that hold a stored entry
DirSlots ==
  {q \in InodeNums \X (0 .. (MAX_FILE_CLUSTERS - 1)) \X (0 .. (DPC - 1)) :
     /\ InUseDir(q[1])
     /\ q[2] < inode[q[1]].size \div DPC
     /\ FileClusterOf(q[1], q[2]) \in ClustNums}

EntryAt(q) == DirView(clust[FileClusterOf(q[1], q[2])].info)[q[3]]

\* the named entries that reference inode n, the `.` of n among them
LinksTo(n) == {q \in DirSlots : EntryAt(q).name # "" /\ EntryAt(q).nInode = n}

DirOps == {"soAddDirEntry", "soRemoveDirEntry", "soRenameDirEntry"}

\* C4: after every successful soAddDirEntry, soRemoveDirEntry or
\* soRenameDirEntry the refcount of each inode in use is the number of named
\* entries of the directories in use that reference it (the entries in its
\* parents, the `..` of its children and, for a directory, its own `.`).
C4_RefcountIsLinkCount ==
  (ret.op \in DirOps /\ ret.err = "OK")
     => \A n \in InodeNums : InUse(n) => inode[n].refcount = Cardinality(LinksTo(n))

RootOK ==
  /\ InUseDir(0)
  /\ inode[0].refcount >= 2
  /\ inode[0].d[0] = 0
  /\ 0 \notin FreeClusters
  /\ clust[0].stat = 0
  /\ DirView(clust[0].info)[0] = [nInode |-> 0, name |-> "."]
  /\ DirView(clust[0].info)[1] = [nInode |-> 0, name |-> ".."]

RootOps == {"soFreeInode", "soCleanInode", "soFreeDataCluster", "soRemoveDirEntry",
            "soRenameDirEntry"}

\* C5: no call of soFreeInode, soCleanInode, soFreeDataCluster,
\* soRemoveDirEntry or soRenameDirEntry, successful or not, ends with inode 0
\* anything but a directory in use with refcount >= 2, `.` and `..` both
\* referencing inode 0, and data cluster 0 allocated to inode 0.
C5_RootPreserved ==
  [][(ret'.op \in RootOps /\ RootOK) => RootOK']_vars

\* a named entry of directory p, other than `.` and `..`, references n
ChildOf(n, p) ==
  \E q \in DirSlots : q[1] = p /\ EntryAt(q).nInode = n /\ EntryAt(q).name \notin {"", ".", ".."}

\* the directories in use that have contents
LinkedDirs == {n \in InodeNums : InUseDir(n) /\ inode[n].size > 0 /\ inode[n].d[0] \in ClustNums}

SlotsOK(n) ==
  /\ DirView(clust[inode[n].d[0]].info)[0] = [nInode |-> n, name |-> "."]
  /\ DirView(clust[inode[n].d[0]].info)[1].name = ".."
  /\ IF n = 0 THEN DirView(clust[inode[n].d[0]].info)[1].nInode = 0
     ELSE ChildOf(n, DirView(clust[inode[n].d[0]].info)[1].nInode)

\* C6: a successful soAddDirEntry, soRemoveDirEntry or soRenameDirEntry,
\* whatever legal base names it is given (`.` and `..` included), leaves
\* slot 0 of every directory in use named `.` and referencing the directory,
\* and slot 1 named `..` and referencing the parent directory.
C6_DotAndDotDotKept ==
  [][(ret'.op \in DirOps /\ ret'.err = "OK" /\ \A n \in LinkedDirs : SlotsOK(n))
        => \A n \in LinkedDirs' : SlotsOK(n)']_vars

\* C9: soFreeInode fails and leaves ifree, ihead, itail and the table of
\* inodes as they were when nInode is 0 or at least itotal, when the inode is
\* free already, or when its refcount is not 0; it succeeds in every other case.
C9_FreeInodeOutcome ==
  [][ret'.op = "soFreeInode" =>
        IF ret'.a = 0 \/ ret'.a >= sb.itotal \/ ~InUse(ret'.a) \/ inode[ret'.a].refcount # 0
        THEN /\ ret'.err # "OK"
             /\ sb'.ifree = sb.ifree /\ sb'.ihead = sb.ihead /\ sb'.itail = sb.itail
             /\ inode' = inode
        ELSE ret'.err = "OK"]_vars
C9_Witness ==
  /\ ret.op = "soFreeInode" /\ ret.err # "OK"
  /\ InUse(ret.a) /\ ret.a # 0 /\ inode[ret.a].refcount # 0

\* C11: a successful soAllocDataCluster(nInode) leaves the returned cluster
\* on the volume with prev = next = NULL_CLUSTER and stat = nInode, and with
\* an all-zero payload when the cluster was free and dirty when it was popped.
C11_AllocatedClusterClean ==
  [][(ret'.op = "soAllocDataCluster" /\ ret'.err = "OK") =>
        /\ clust'[ret'.val].prev = NULL_CLUSTER
        /\ clust'[ret'.val].next = NULL_CLUSTER
        /\ clust'[ret'.val].stat = ret'.a
        /\ clust[ret'.val].stat # NULL_INODE => clust'[ret'.val].info = [kind |-> "zero"]]_vars

\* C12: after any sequence of soAllocDataCluster and soFreeDataCluster calls
\* every cluster in the occupied part of the retrieval cache is free and
\* clean (prev = next = NULL_CLUSTER, stat = NULL_INODE) and every cluster in
\* the occupied part of the insertion cache is free (prev = next = NULL_CLUSTER).
C12_CachesFreeAndClean ==
  /\ \A k \in sb.dzone_retriev.cache_idx .. (DZONE_CACHE_SIZE - 1) :
       /\ sb.dzone_retriev.cache[k] \in ClustNums
       /\ clust[sb.dzone_retriev.cache[k]].prev = NULL_CLUSTER
       /\ clust[sb.dzone_retriev.cache[k]].next = NULL_CLUSTER
       /\ clust[sb.dzone_retriev.cache[k]].stat = NULL_INODE
  /\ \A k \in 0 .. (sb.dzone_insert.cache_idx - 1) :
       /\ sb.dzone_insert.cache[k] \in ClustNums
       /\ clust[sb.dzone_insert.cache[k]].prev = NULL_CLUSTER
       /\ clust[sb.dzone_insert.cache[k]].next = NULL_CLUSTER

\* the triad that the identity of the caller selects for inode n
TriadByIdentity(n) ==
  IF getuid = inode[n].owner THEN Triad(inode[n].mode.perm, 2)
  ELSE IF getgid = inode[n].group THEN Triad(inode[n].mode.perm, 1)
  ELSE Triad(inode[n].mode.perm, 0)

\* C13: for a caller other than root, soAccessGranted on an inode in use
\* succeeds exactly when every bit of the mask is set in the triad selected
\* by identity (user for the owner, else group for a group member, else
\* other) and returns EACCES otherwise, whatever the other two triads hold.
C13_TriadByIdentity ==
  [][(ret'.op = "soAccessGranted" /\ getuid # 0 /\ InUse(ret'.a) /\ ret'.b \in 1 .. 7) =>
        ret'.err = (IF Grants(TriadByIdentity(ret'.a), ret'.b) THEN "OK" ELSE "EACCES")]_vars

\* the indices, within the size of directory d, of the slots with an empty name
\* that hold no inode number (clean) or the number of a removed entry (dirty)
CleanSlots(d) ==
  {q[2] * DPC + q[3] : q \in {p \in DirSlots : p[1] = d /\ EntryAt(p).name = ""
                                                /\ EntryAt(p).nInode = NULL_INODE}}
DirtySlots(d) ==
  {q[2] * DPC + q[3] : q \in {p \in DirSlots : p[1] = d /\ EntryAt(p).name = ""
                                                /\ EntryAt(p).nInode # NULL_INODE}}
FreeSlotIdx(d) ==
  IF CleanSlots(d) # {} THEN Min(CleanSlots(d))
  ELSE IF DirtySlots(d) # {} THEN Min(DirtySlots(d))
  ELSE inode[d].size

\* C15: when soGetDirEntryByName finds no entry of the name in a directory
\* in use it returns ENOENT and the index it exposes is the smallest index
\* of a free clean slot, else the smallest index of a free dirty slot (the
\* slot of a removed entry), else the index one past the last slot.
C15_FreeSlotExposed ==
  \A d \in InodeNums : \A name \in {"a", "b"} :
    (InUseDir(d) /\ soGetDirEntryByName(Cur, d, name).err = "ENOENT")
       => soGetDirEntryByName(Cur, d, name).val.idx = FreeSlotIdx(d)

\* C17: a successful soAddDirEntry(d, n, e) on a directory d in use and an
\* inode e in use, followed at once by a successful soRemoveDirEntry(d, n),
\* leaves the refcount of d and the refcount of e as they were before the add.
C17_AddRemoveRefcounts ==
  [][(/\ ret'.op = "soAddDirEntry" /\ ret'.err = "OK"
      /\ InUseDir(ret'.a) /\ InUse(ret'.b)
      /\ soRemoveDirEntry(Cur', ret'.a, ret'.s).err = "OK")
        => /\ soRemoveDirEntry(Cur', ret'.a, ret'.s).S.inode[ret'.a].refcount
                = inode[ret'.a].refcount
           /\ soRemoveDirEntry(Cur', ret'.a, ret'.s).S.inode[ret'.b].refcount
                = inode[ret'.b].refcount]_vars

\* directory d holds an entry of the name
HasName(d, name) == \E q \in DirSlots : q[1] = d /\ EntryAt(q).name = name

\* a directory in use whose contents pass the consistency check
SoundDir(d) == d \in LinkedDirs /\ soQCheckDirCont(Cur, inode[d]) = "OK"

\* the caller may search and modify directory d
MayModify(d) ==
  soAccessGranted(Cur, d, X).err = "OK" /\ soAccessGranted(Cur, d, W).err = "OK"

\* C18: in a directory d the caller may modify, with an entry named a and none named b,
\* soRenameDirEntry(d, a, b) succeeds and soRenameDirEntry(d, b, a) after it
\* succeeds too and leaves every entry of every directory in its slot, the
\* size of d and every refcount as they were; a rename to a name that exists
\* fails with EEXIST and a rename of a name that does not exist fails with
\* ENOENT, both without changing the volume.
C18_RenameRoundTrip ==
  [][(ret'.op = "soRenameDirEntry" /\ SoundDir(ret'.a) /\ MayModify(ret'.a)) =>
        IF ~HasName(ret'.a, ret'.s)
        THEN ret'.err = "ENOENT" /\ Cur' = Cur
        ELSE IF HasName(ret'.a, ret'.s2)
        THEN ret'.err = "EEXIST" /\ Cur' = Cur
        ELSE /\ ret'.err = "OK"
             /\ soRenameDirEntry(Cur', ret'.a, ret'.s2, ret'.s).err = "OK"
             /\ soRenameDirEntry(Cur', ret'.a, ret'.s2, ret'.s).S.clust = clust
             /\ soRenameDirEntry(Cur', ret'.a, ret'.s2, ret'.s).S.inode[ret'.a].size
                  = inode[ret'.a].size
             /\ \A n \in InodeNums :
                  soRenameDirEntry(Cur', ret'.a, ret'.s2, ret'.s).S.inode[n].refcount
                    = inode[n].refcount]_vars

\* slot 0 of d is named `.` and slot 1 is named `..`
DotSlots(d) ==
  /\ <<d, 0, 0>> \in DirSlots /\ EntryAt(<<d, 0, 0>>).name = "."
  /\ EntryAt(<<d, 0, 1>>).name = ".."
\* every slot of d after the first two has an empty name
RestEmpty(d) == \A q \in DirSlots : (q[1] = d /\ q[2] * DPC + q[3] >= 2) => EntryAt(q).name = ""

AllOccupied(d) == \A q \in DirSlots : q[1] = d => EntryAt(q).name # ""

\* the places of the reference tree of inode n that hold a cluster
OwnedPlaces(n) == {p \in RefPlaces : p[1] = n /\ RefAt(p) # NULL_CLUSTER}

\* C20: a successful soAddDirEntry on a directory all of whose slots within
\* its size carry a name raises the size by the entries of one cluster and
\* the clucount by the clusters allocated to the directory, stores the new
\* entry at offset 0 of the new cluster with every other slot of that cluster
\* empty, and leaves every entry the directory had as it was.
C20_GrowthOnFullDirectory ==
  [][\A d \in InodeNums : \A k \in 0 .. (MAX_FILE_CLUSTERS - 1) : \A e \in InodeNums :
       (/\ ret'.op = "soAddDirEntry" /\ ret'.err = "OK" /\ ret'.a = d /\ ret'.b = e
        /\ SoundDir(d) /\ AllOccupied(d) /\ k = inode[d].size \div DPC)
          => /\ inode'[d].size = inode[d].size + DPC
             /\ inode'[d].clucount - inode[d].clucount
                  = Cardinality(OwnedPlaces(d)') - Cardinality(OwnedPlaces(d))
             /\ <<d, k, 0>> \in DirSlots'
             /\ EntryAt(<<d, k, 0>>)'.nInode = e
             /\ EntryAt(<<d, k, 0>>)'.name = ret'.s
             /\ \A i \in 1 .. (DPC - 1) : EntryAt(<<d, k, i>>)' = EmptyEntry
             /\ \A q \in DirSlots : q[1] = d => EntryAt(q)' = EntryAt(q)]_vars

(***************************************************************************)
(* Path resolution and the system calls on paths.                          *)
(***************************************************************************)
\* the inodes that the entries of directory d of the name reference
NamedIn(d, name) == {EntryAt(q).nInode : q \in {p \in DirSlots : p[1] = d /\ EntryAt(p).name = name}}

IsSymlink(n) == InUse(n) /\ INODE_SYMLINK \in inode[n].mode.flags

\* the path stored in symbolic link n
LinkText(n) ==
  IF inode[n].d[0] \in ClustNums THEN PathView(clust[inode[n].d[0]].info) ELSE Path(FALSE, <<>>)

\* C16: soGetDirEntryByPath on an absolute path returns; when the path names
\* a symbolic link of the root whose target names an entry of the root, the
\* call succeeds with the inode of that entry if the entry is no symbolic
\* link (one expansion) and fails with ELOOP if it is one (a second
\* expansion, the link itself included).
C16_OneSymlinkLevel ==
  [][(ret'.op = "soGetDirEntryByPath" /\ ret'.s.abs) =>
        /\ ret'.err # SIGSEGV
        /\ \A x \in InodeNums : \A y \in InodeNums :
             (/\ Len(ret'.s.comps) = 1 /\ NamedIn(0, ret'.s.comps[1]) = {x}
              /\ IsSymlink(x) /\ LinkText(x).abs /\ Len(LinkText(x).comps) = 1
              /\ NamedIn(0, LinkText(x).comps[1]) = {y})
               => IF IsSymlink(y) THEN ret'.err = "ELOOP"
                  ELSE ret'.err = "OK" /\ ret'.val.nInodeEnt = y]_vars

IsFile(n) == InUse(n) /\ INODE_FILE \in inode[n].mode.flags

\* C14: called by an ordinary user on a path that names a regular file of
\* the root, soRead fails with EPERM and returns no byte when the triad that
\* applies to the caller lacks the read bit, and soWrite fails with EPERM and
\* leaves the size, the references and the clusters of the file as they were
\* when that triad lacks the write bit.
C14_ReadWriteNeedPermission ==
  [][\A n \in InodeNums :
       (/\ ret'.op \in {"soRead", "soWrite"} /\ getuid # 0
        /\ Len(ret'.s.comps) = 1 /\ NamedIn(0, ret'.s.comps[1]) = {n} /\ IsFile(n))
          => /\ (ret'.op = "soRead" /\ ~Grants(TriadByIdentity(n), R))
                  => ret'.err = "EPERM" /\ ret'.val.buff = <<>>
             /\ (ret'.op = "soWrite" /\ ~Grants(TriadByIdentity(n), W))
                  => /\ ret'.err = "EPERM"
                     /\ inode'[n].size = inode[n].size
                     /\ \A p \in RefPlaces : p[1] = n =>
                          /\ RefAt(p)' = RefAt(p)
                          /\ RefAt(p) \in ClustNums =>
                               clust'[RefAt(p)].info = clust[RefAt(p)].info]_vars

(***************************************************************************)
(* soAddDirEntry on inodes that already carry many links.  The volume is   *)
(* the formatted one with inode 1 entered in the root; the refcounts of    *)
(* the root and of inode 1 stand for the links of a larger tree: those of  *)
(* the small tree, or two, one or none short of the largest 16-bit value.  *)
(***************************************************************************)
MAX_REFCOUNT == 65535
LinkArgs == {MAX_REFCOUNT - 2, MAX_REFCOUNT - 1, MAX_REFCOUNT}

\* inode 1, of the type, allocated and entered in the root under the name a
Linked(type) == soAddDirEntry(soAllocInode(mkfs, type).S, 0, "a", 1).S

InitLink ==
  /\ cred = [uid |-> 0, gid |-> 0]
  /\ \E type \in {INODE_DIR, INODE_FILE} :
       /\ sb = Linked(type).sb
       /\ clust = Linked(type).clust
       /\ inode \in {[Linked(type).inode EXCEPT ![1].refcount = r1, ![0].refcount = r0] :
                       r1 \in LinkArgs \cup {Linked(type).inode[1].refcount},
                       r0 \in LinkArgs \cup {Linked(type).inode[0].refcount}}
  /\ ret = NoCall
  /\ nops = 0

NextLink == AddDirEntry(MaxLinkOps) \/ RemoveDirEntry(MaxLinkOps)
SpecLink == InitLink /\ [][NextLink]_vars

\* the links soAddDirEntry(d, name, e) adds to e and to d
LinksAdded(d, e) ==
  [ent |-> IF IsDir(inode[e]) THEN 2 ELSE 1, dir |-> IF IsDir(inode[e]) THEN 1 ELSE 0]

WouldOverflow(d, e) ==
  \/ inode[e].refcount + LinksAdded(d, e).ent > MAX_REFCOUNT
  \/ inode[d].refcount + LinksAdded(d, e).dir > MAX_REFCOUNT

\* C21: a soAddDirEntry(d, name, e) of a new legal name into a sound
\* directory d the caller may modify, with e in use, that would raise the
\* refcount of e (by 1, by 2 for a directory) or of d (by 1 for a directory)
\* above 0xFFFF fails with EMLINK and leaves the volume as it was.
C21_NoRefcountWrap ==
  [][(/\ ret'.op = "soAddDirEntry" /\ SoundDir(ret'.a) /\ MayModify(ret'.a)
      /\ InUse(ret'.b) /\ ~HasName(ret'.a, ret'.s)
      /\ WouldOverflow(ret'.a, ret'.b))
        => (ret'.err = "EMLINK" /\ Cur' = Cur)]_vars

(***************************************************************************)
(* Names as arrays of characters.  The directory operations compare whole  *)
(* names, which are strings in the model; soRename looks inside them.      *)
(* NameText gives the characters of each name the system calls are called  *)
(* with or produce.                                                        *)
(***************************************************************************)
NameText ==
  ("a" :> <<"a">>) @@ ("A" :> <<"A">>) @@ ("d" :> <<"d">>) @@ ("D" :> <<"D">>)
  @@ ("1" :> <<"1">>) @@ ("ad" :> <<"a", "d">>) @@ ("DA" :> <<"D", "A">>)
  @@ ("." :> <<".">>) @@ ("_" :> <<"_">>) @@ (".." :> <<".", ".">>) @@ ("__" :> <<"_", "_">>)
  @@ ("/" :> <<"/">>)

\* the name whose characters are text
TextName(text) == CHOOSE name \in DOMAIN NameText : NameText[name] = text

UpperOf == ("a" :> "A") @@ ("d" :> "D")
LowerOf == ("A" :> "a") @@ ("D" :> "d")

\* one character of the name, as the first loop of soUniqueName rewrites it
SwapChar(c) ==
  IF c \in DOMAIN LowerOf THEN LowerOf[c]
  ELSE IF c \in DOMAIN UpperOf THEN UpperOf[c]
  ELSE IF c = "." THEN "_"
  ELSE IF c = "_" THEN "."
  ELSE c

\* the second loop of soUniqueName
Reversed(text) == [i \in 1 .. Len(text) |-> text[Len(text) + 1 - i]]

soUniqueName(name) ==
  TextName(Reversed([i \in 1 .. Len(NameText[name]) |-> SwapChar(NameText[name][i])]))

RECURSIVE CompsText(_)
CompsText(comps) ==
  IF Len(comps) = 0 THEN <<>>
  ELSE NameText[Head(comps)] \o (IF Len(comps) > 1 THEN <<"/">> ELSE <<>>)
       \o CompsText(Tail(comps))

\* the characters of a path
PathText(p) == (IF p.abs THEN <<"/">> ELSE <<>>) \o CompsText(p.comps)

\* strncmp(s1, s2, n) == 0 on zero-terminated strings
StrnEq(s1, s2, n) ==
  IF Len(s1) >= n /\ Len(s2) >= n THEN SubSeq(s1, 1, n) = SubSeq(s2, 1, n)
  ELSE s1 = s2

(***************************************************************************)
(* soAttachDirectory and soDetachDirEntry.                                 *)
(***************************************************************************)
\* L = [base, eName, sub, inodeBase, idx]
RECURSIVE AttachFrom(_, _, _)
AttachFrom(pc, Rk, L) ==
  IF pc = "lookup"
  THEN IF Rk.err = "OK" THEN Res(Rk.S, "EEXIST", 0)
       ELSE IF Rk.err # "ENOENT" THEN Res(Rk.S, Rk.err, 0)
       ELSE IF Rk.val.idx >= DPC * MAX_FILE_CLUSTERS THEN Res(Rk.S, "EFBIG", 0)
       ELSE AttachFrom("W", soAccessGranted(Rk.S, L.base, W), [L EXCEPT !.idx = Rk.val.idx])
  ELSE IF pc = "W" /\ Rk.err = "EACCES" THEN Res(Rk.S, "EPERM", 0)
  ELSE IF Rk.err # "OK" THEN Res(Rk.S, Rk.err, 0)
  ELSE IF pc = "base"
  THEN IF ~IsDir(Rk.val) THEN Res(Rk.S, "ENOTDIR", 0)
       ELSE IF soQCheckDirCont(Rk.S, Rk.val) # "OK" THEN Res(Rk.S, soQCheckDirCont(Rk.S, Rk.val), 0)
       ELSE AttachFrom("sub", soReadInode(Rk.S, L.sub, IUIN), [L EXCEPT !.inodeBase = Rk.val])
  ELSE IF pc = "sub"
  THEN IF ~IsDir(Rk.val) THEN Res(Rk.S, "ENOTDIR", 0)
       ELSE IF soQCheckDirCont(Rk.S, Rk.val) # "OK" THEN Res(Rk.S, soQCheckDirCont(Rk.S, Rk.val), 0)
       ELSE IF Rk.val.refcount = MAX_REFCOUNT \/ L.inodeBase.refcount = MAX_REFCOUNT
       THEN Res(Rk.S, "EMLINK", 0)
       ELSE AttachFrom("lookup", soGetDirEntryByName(Rk.S, L.base, L.eName), L)
  ELSE IF pc = "W"
  THEN IF L.idx >= L.inodeBase.size
       THEN AttachFrom("read", Res(Rk.S, "OK", DirInfo([i \in 0 .. (DPC - 1) |-> EmptyEntry])), L)
       ELSE AttachFrom("read", soReadFileCluster(Rk.S, L.base, L.idx \div DPC), L)
  ELSE IF pc = "read"
  THEN AttachFrom("write",
                  soWriteFileCluster(Rk.S, L.base, L.idx \div DPC,
                                     DirInfo([DirView(Rk.val) EXCEPT ![L.idx % DPC] =
                                                [nInode |-> L.sub, name |-> L.eName]])),
                  L)
  ELSE IF pc = "write"
  THEN AttachFrom("base2", soReadInode(Rk.S, L.base, IUIN), L)
  ELSE IF pc = "base2"
  THEN AttachFrom("basew",
                  soWriteInode(Rk.S,
                               [Rk.val EXCEPT !.refcount = U16(@ + 1),
                                              !.size = IF L.idx >= @ THEN @ + DPC ELSE @],
                               L.base, IUIN), L)
  ELSE IF pc = "basew"
  THEN AttachFrom("dots", soReadFileCluster(Rk.S, L.sub, 0), L)
  ELSE IF pc = "dots"
  THEN AttachFrom("dotsw",
                  soWriteFileCluster(Rk.S, L.sub, 0,
                                     DirInfo([DirView(Rk.val) EXCEPT ![1] =
                                                [nInode |-> L.base, name |-> ".."]])),
                  L)
  ELSE IF pc = "dotsw"
  THEN AttachFrom("sub2", soReadInode(Rk.S, L.sub, IUIN), L)
  ELSE IF pc = "sub2"
  THEN AttachFrom("done",
                  soWriteInode(Rk.S, [Rk.val EXCEPT !.refcount = U16(@ + 1)], L.sub, IUIN), L)
  ELSE Res(Rk.S, "OK", 0)

soAttachDirectory(S, nInodeDirBase, eName, nInodeDirSub) ==
  IF nInodeDirBase >= S.sb.itotal \/ nInodeDirSub >= S.sb.itotal THEN Res(S, "EINVAL", 0)
  ELSE IF eName \in SlashNames THEN Res(S, "EINVAL", 0)
  ELSE IF eName \in LongNames THEN Res(S, "ENAMETOOLONG", 0)
  ELSE AttachFrom("base", soReadInode(S, nInodeDirBase, IUIN),
                  [base |-> nInodeDirBase, eName |-> eName, sub |-> nInodeDirSub,
                   inodeBase |-> S.inode[0], idx |-> 0])

\* L = [nInodeDir, eName, nInodeEnt, idx, isDir]
RECURSIVE DetachFrom(_, _, _)
DetachFrom(pc, Rk, L) ==
  IF pc = "W" /\ Rk.err = "EACCES" THEN Res(Rk.S, "EPERM", 0)
  ELSE IF Rk.err # "OK" THEN Res(Rk.S, Rk.err, 0)
  ELSE IF pc = "dir"
  THEN IF ~IsDir(Rk.val) THEN Res(Rk.S, "ENOTDIR", 0)
       ELSE IF soQCheckDirCont(Rk.S, Rk.val) # "OK" THEN Res(Rk.S, soQCheckDirCont(Rk.S, Rk.val), 0)
       ELSE DetachFrom("lookup", soGetDirEntryByName(Rk.S, L.nInodeDir, L.eName), L)
  ELSE IF pc = "lookup"
  THEN DetachFrom("W", soAccessGranted(Rk.S, L.nInodeDir, W),
                  [L EXCEPT !.nInodeEnt = Rk.val.nInodeEnt, !.idx = Rk.val.idx])
  ELSE IF pc = "W"
  THEN DetachFrom("read", soReadFileCluster(Rk.S, L.nInodeDir, L.idx \div DPC), L)
  ELSE IF pc = "read"
  THEN DetachFrom("write",
                  soWriteFileCluster(Rk.S, L.nInodeDir, L.idx \div DPC,
                                     DirInfo([DirView(Rk.val) EXCEPT ![L.idx % DPC] = EmptyEntry])),
                  L)
  ELSE IF pc = "write"
  THEN DetachFrom("ent", soReadInode(Rk.S, L.nInodeEnt, IUIN), L)
  ELSE IF pc = "ent"
  THEN DetachFrom("entw",
                  soWriteInode(Rk.S, [Rk.val EXCEPT !.refcount = U16(@ - 1)], L.nInodeEnt, IUIN),
                  [L EXCEPT !.isDir = IsDir(Rk.val)])
  ELSE IF pc = "entw"
  THEN IF L.isDir THEN DetachFrom("dir2", soReadInode(Rk.S, L.nInodeDir, IUIN), L)
       ELSE Res(Rk.S, "OK", 0)
  ELSE IF pc = "dir2"
  THEN DetachFrom("done",
                  soWriteInode(Rk.S, [Rk.val EXCEPT !.refcount = U16(@ - 1)], L.nInodeDir, IUIN),
                  L)
  ELSE Res(Rk.S, "OK", 0)

soDetachDirEntry(S, nInodeDir, eName) ==
  IF nInodeDir >= S.sb.itotal THEN Res(S, "EINVAL", 0)
  ELSE IF eName \in SlashNames THEN Res(S, "EINVAL", 0)
  ELSE IF eName \in LongNames THEN Res(S, "ENAMETOOLONG", 0)
  ELSE DetachFrom("dir", soReadInode(S, nInodeDir, IUIN),
                  [nInodeDir |-> nInodeDir, eName |-> eName, nInodeEnt |-> 0, idx |-> 0,
                   isDir |-> FALSE])

(***************************************************************************)
(* System calls that create a directory, a second name, and that move a    *)
(* name.                                                                   *)
(***************************************************************************)
S_ISVTX == 512

\* L = [entName, mode, nInodeDir, nInodeEnt]
RECURSIVE MkdirFrom(_, _, _)
MkdirFrom(pc, Rk, L) ==
  IF pc = "name"
  THEN IF Rk.err = "OK" THEN Res(Rk.S, "EEXIST", 0)
       ELSE IF Rk.err # "ENOENT" THEN Res(Rk.S, Rk.err, 0)
       ELSE MkdirFrom("W", soAccessGranted(Rk.S, L.nInodeDir, W), L)
  ELSE IF pc = "W" /\ Rk.err = "EACCES" THEN Res(Rk.S, "EPERM", 0)
  ELSE IF pc \in {"read", "write", "add"} /\ Rk.err # "OK" THEN MknodUndo(Rk.S, L.nInodeEnt, Rk.err)
  ELSE IF Rk.err # "OK" THEN Res(Rk.S, Rk.err, 0)
  ELSE IF pc = "dir"
  THEN MkdirFrom("name", soGetDirEntryByName(Rk.S, Rk.val.nInodeEnt, L.entName),
                 [L EXCEPT !.nInodeDir = Rk.val.nInodeEnt])
  ELSE IF pc = "W"
  THEN MkdirFrom("alloc", soAllocInode(Rk.S, INODE_DIR), L)
  ELSE IF pc = "alloc"
  THEN MkdirFrom("read", soReadInode(Rk.S, Rk.val, IUIN), [L EXCEPT !.nInodeEnt = Rk.val])
  ELSE IF pc = "read"
  THEN MkdirFrom("write",
                 soWriteInode(Rk.S, [Rk.val EXCEPT !.mode.perm = BitOr(@, getMode(L.mode))],
                              L.nInodeEnt, IUIN), L)
  ELSE IF pc = "write"
  THEN MkdirFrom("add", soAddDirEntry(Rk.S, L.nInodeDir, L.entName, L.nInodeEnt), L)
  ELSE Res(Rk.S, "OK", 0)

soMkdir(S, ePath, mode, junk) ==
  IF ~ePath.abs THEN Res(S, "EINVAL", 0)
  ELSE IF mode = 0 \/ mode = S_ISVTX THEN Res(S, "EINVAL", 0)
  ELSE IF basename(ePath) \in LongNames THEN Res(S, "ENAMETOOLONG", 0)
  ELSE MkdirFrom("dir", soGetDirEntryByPath(S, dirname(ePath), junk),
                 [entName |-> basename(ePath), mode |-> mode, nInodeDir |-> 0, nInodeEnt |-> 0])

\* L = [oldPath, newPath, junk, nInodeOldDir, nInodeNewDir, nInodeEnt]
RECURSIVE LinkFrom(_, _, _)
LinkFrom(pc, Rk, L) ==
  IF pc = "newent"
  THEN IF Rk.err = "OK" THEN Res(Rk.S, "EEXIST", 0)
       ELSE IF Rk.err # "ENOENT" THEN Res(Rk.S, Rk.err, 0)
       ELSE LinkFrom("W", soAccessGranted(Rk.S, L.nInodeNewDir, W), L)
  ELSE IF pc = "W" /\ Rk.err = "EACCES" THEN Res(Rk.S, "EPERM", 0)
  ELSE IF Rk.err # "OK" THEN Res(Rk.S, Rk.err, 0)
  ELSE IF pc = "olddir"
  THEN LinkFrom("oldent", soGetDirEntryByName(Rk.S, Rk.val.nInodeEnt, basename(L.oldPath)),
                [L EXCEPT !.nInodeOldDir = Rk.val.nInodeEnt])
  ELSE IF pc = "oldent"
  THEN LinkFrom("inode", soReadInode(Rk.S, Rk.val.nInodeEnt, IUIN),
                [L EXCEPT !.nInodeEnt = Rk.val.nInodeEnt])
  ELSE IF pc = "inode"
  THEN IF IsDir(Rk.val) THEN Res(Rk.S, "EPERM", 0)
       ELSE LinkFrom("newdir", soGetDirEntryByPath(Rk.S, dirname(L.newPath), L.junk), L)
  ELSE IF pc = "newdir"
  THEN LinkFrom("newent", soGetDirEntryByName(Rk.S, Rk.val.nInodeEnt, basename(L.newPath)),
                [L EXCEPT !.nInodeNewDir = Rk.val.nInodeEnt])
  ELSE IF pc = "W"
  THEN LinkFrom("done", soAddDirEntry(Rk.S, L.nInodeNewDir, basename(L.newPath), L.nInodeEnt), L)
  ELSE Res(Rk.S, "OK", 0)

soLink_NoEntry(S, oldPath, newPath, junk) ==
  IF ~oldPath.abs \/ ~newPath.abs THEN Res(S, "EINVAL", 0)
  ELSE Res(S, LinkFrom("olddir", soGetDirEntryByPath(S, dirname(oldPath), junk),
                       [oldPath |-> oldPath, newPath |-> newPath, junk |-> junk,
                        nInodeOldDir |-> 0, nInodeNewDir |-> 0, nInodeEnt |-> 0]).err, 0)

soLink(S, oldPath, newPath, junk) ==
  IF ~oldPath.abs \/ ~newPath.abs THEN Res(S, "EINVAL", 0)
  ELSE LinkFrom("olddir", soGetDirEntryByPath(S, dirname(oldPath), junk),
                [oldPath |-> oldPath, newPath |-> newPath, junk |-> junk, nInodeOldDir |-> 0,
                 nInodeNewDir |-> 0, nInodeEnt |-> 0])

RenameUndo_NoRollback(S, error, L) == Res(S, error, 0)

\* the return of soRename after a failed step: the throwaway name, if one was
\* given, is renamed back, whatever that rename returns
RenameUndo(S, error, L) ==
  IF L.newExists
  THEN Res(soRenameDirEntry(S, L.nInodeNewDir, soUniqueName(basename(L.newPath)),
                            basename(L.newPath)).S, error, 0)
  ELSE Res(S, error, 0)

\* L = [oldPath, newPath, junk, nInodeOldDir, nInodeNewDir, nInodeEnt, nInodeNewEnt, isDir,
\*      newExists]
RECURSIVE RenameFrom(_, _, _)
RenameFrom(pc, Rk, L) ==
  IF pc = "newent"
  THEN IF Rk.err = "ENOENT" THEN RenameFrom("Wold", soAccessGranted(Rk.S, L.nInodeOldDir, W), L)
       ELSE IF Rk.err # "OK" THEN Res(Rk.S, Rk.err, 0)
       ELSE RenameFrom("newinode", soReadInode(Rk.S, Rk.val.nInodeEnt, IUIN),
                       [L EXCEPT !.newExists = TRUE, !.nInodeNewEnt = Rk.val.nInodeEnt])
  ELSE IF pc \in {"Wold", "Wnew"} /\ Rk.err = "EACCES" THEN Res(Rk.S, "EPERM", 0)
  ELSE IF pc \in {"moved", "placed"} /\ Rk.err # "OK" THEN RenameUndo(Rk.S, Rk.err, L)
  ELSE IF pc = "detached" /\ Rk.err # "OK"
  THEN RenameUndo(soDetachDirEntry(Rk.S, L.nInodeNewDir, basename(L.newPath)).S, Rk.err, L)
  ELSE IF Rk.err # "OK" THEN Res(Rk.S, Rk.err, 0)
  ELSE IF pc = "olddir"
  THEN RenameFrom("oldent", soGetDirEntryByName(Rk.S, Rk.val.nInodeEnt, basename(L.oldPath)),
                  [L EXCEPT !.nInodeOldDir = Rk.val.nInodeEnt])
  ELSE IF pc = "oldent"
  THEN RenameFrom("inode", soReadInode(Rk.S, Rk.val.nInodeEnt, IUIN),
                  [L EXCEPT !.nInodeEnt = Rk.val.nInodeEnt])
  ELSE IF pc = "inode"
  THEN IF IsDir(Rk.val) /\ StrnEq(PathText(L.oldPath), PathText(L.newPath),
                                  Len(PathText(L.newPath)))
       THEN Res(Rk.S, "EINVAL", 0)
       ELSE RenameFrom("newdir", soGetDirEntryByPath(Rk.S, dirname(L.newPath), L.junk),
                       [L EXCEPT !.isDir = IsDir(Rk.val)])
  ELSE IF pc = "newdir"
  THEN RenameFrom("newent", soGetDirEntryByName(Rk.S, Rk.val.nInodeEnt, basename(L.newPath)),
                  [L EXCEPT !.nInodeNewDir = Rk.val.nInodeEnt])
  ELSE IF pc = "newinode"
  THEN IF ~IsDir(Rk.val)
       THEN IF L.isDir THEN Res(Rk.S, "ENOTDIR", 0)
            ELSE RenameFrom("Wold", soAccessGranted(Rk.S, L.nInodeOldDir, W), L)
       ELSE IF ~L.isDir THEN Res(Rk.S, "EISDIR", 0)
       ELSE RenameFrom("empty", soCheckDirectoryEmptiness(Rk.S, L.nInodeNewEnt), L)
  ELSE IF pc = "empty"
  THEN RenameFrom("Wold", soAccessGranted(Rk.S, L.nInodeOldDir, W), L)
  ELSE IF pc = "Wold"
  THEN RenameFrom("Wnew", soAccessGranted(Rk.S, L.nInodeNewDir, W), L)
  ELSE IF pc = "Wnew"
  THEN IF L.newExists
       THEN RenameFrom("away",
                       soRenameDirEntry(Rk.S, L.nInodeNewDir, basename(L.newPath),
                                        soUniqueName(basename(L.newPath))), L)
       ELSE RenameFrom("away", Res(Rk.S, "OK", 0), L)
  ELSE IF pc = "away"
  THEN IF dirname(L.oldPath) = dirname(L.newPath)
       THEN RenameFrom("moved",
                       soRenameDirEntry(Rk.S, L.nInodeOldDir, basename(L.oldPath),
                                        basename(L.newPath)), L)
       ELSE IF L.isDir
       THEN RenameFrom("placed",
                       soAttachDirectory(Rk.S, L.nInodeNewDir, basename(L.newPath), L.nInodeEnt),
                       L)
       ELSE RenameFrom("placed",
                       soAddDirEntry(Rk.S, L.nInodeNewDir, basename(L.newPath), L.nInodeEnt), L)
  ELSE IF pc = "placed"
  THEN RenameFrom("detached", soDetachDirEntry(Rk.S, L.nInodeOldDir, basename(L.oldPath)), L)
  ELSE IF L.newExists
  THEN Res(soRemoveDirEntry(Rk.S, L.nInodeNewDir, soUniqueName(basename(L.newPath))).S, "OK", 0)
  ELSE Res(Rk.S, "OK", 0)

soRename(S, oldPath, newPath, junk) ==
  IF ~oldPath.abs \/ ~newPath.abs THEN Res(S, "EINVAL", 0)
  ELSE IF basename(oldPath) \in LongNames \/ basename(newPath) \in LongNames
  THEN Res(S, "ENAMETOOLONG", 0)
  ELSE RenameFrom("olddir", soGetDirEntryByPath(S, dirname(oldPath), junk),
                  [oldPath |-> oldPath, newPath |-> newPath, junk |-> junk, nInodeOldDir |-> 0,
                   nInodeNewDir |-> 0, nInodeEnt |-> 0, nInodeNewEnt |-> 0, isDir |-> FALSE,
                   newExists |-> FALSE])

\* L = [entName, nInodeDir, nInodeEnt]
RECURSIVE RmdirFrom(_, _, _)
RmdirFrom(pc, Rk, L) ==
  IF pc = "X" /\ Rk.err = "EACCES" THEN Res(Rk.S, "EPERM", 0)
  ELSE IF Rk.err # "OK" THEN Res(Rk.S, Rk.err, 0)
  ELSE IF pc = "dir"
  THEN RmdirFrom("ent", soGetDirEntryByName(Rk.S, Rk.val.nInodeEnt, L.entName),
                 [L EXCEPT !.nInodeDir = Rk.val.nInodeEnt])
  ELSE IF pc = "ent"
  THEN RmdirFrom("inode", soReadInode(Rk.S, Rk.val.nInodeEnt, IUIN),
                 [L EXCEPT !.nInodeEnt = Rk.val.nInodeEnt])
  ELSE IF pc = "inode"
  THEN IF ~IsDir(Rk.val) THEN Res(Rk.S, "ENOTDIR", 0)
       ELSE RmdirFrom("empty", soCheckDirectoryEmptiness(Rk.S, L.nInodeEnt), L)
  ELSE IF pc = "empty"
  THEN RmdirFrom("X", soAccessGranted(Rk.S, L.nInodeDir, X), L)
  ELSE IF pc = "X"
  THEN RmdirFrom("done", soRemoveDirEntry(Rk.S, L.nInodeDir, L.entName), L)
  ELSE Res(Rk.S, "OK", 0)

soRmdir(S, ePath, junk) ==
  IF ~ePath.abs THEN Res(S, "EINVAL", 0)
  ELSE RmdirFrom("dir", soGetDirEntryByPath(S, dirname(ePath), junk),
                 [entName |-> basename(ePath), nInodeDir |-> 0, nInodeEnt |-> 0])

(***************************************************************************)
(* The system calls on a small tree: the formatted volume with the         *)
(* directory /d, called by root.  No symbolic link is ever made, so the    *)
(* symbolic-link branch of soTraversePath is not taken.                    *)
(***************************************************************************)
TreePathArgs ==
  {Path(TRUE, <<"a">>), Path(TRUE, <<"A">>), Path(TRUE, <<"d">>), Path(TRUE, <<"d", "a">>),
   Path(TRUE, <<"d", "d">>)}
DirModeArgs == {511}
FileModeArgs == {420}

InitTree ==
  /\ cred = [uid |-> 0, gid |-> 0]
  /\ sb = soMkdir(mkfs, Path(TRUE, <<"d">>), 511, FALSE).S.sb
  /\ inode = soMkdir(mkfs, Path(TRUE, <<"d">>), 511, FALSE).S.inode
  /\ clust = soMkdir(mkfs, Path(TRUE, <<"d">>), 511, FALSE).S.clust
  /\ ret = [NoCall EXCEPT !.s = NoPath, !.s2 = NoPath]
  /\ nops = 0

Mkdir(max) ==
  /\ nops < max
  /\ \E ePath \in TreePathArgs, mode \in DirModeArgs :
       CommitNames(soMkdir(Cur, ePath, mode, FALSE), "soMkdir", mode, 0, ePath, NoPath)

MknodTree(max) ==
  /\ nops < max
  /\ \E ePath \in TreePathArgs, mode \in FileModeArgs :
       CommitNames(soMknod(Cur, ePath, mode, FALSE), "soMknod", mode, 0, ePath, NoPath)

Rmdir(max) ==
  /\ nops < max
  /\ \E ePath \in TreePathArgs :
       CommitNames(soRmdir(Cur, ePath, FALSE), "soRmdir", 0, 0, ePath, NoPath)

Link(max) ==
  /\ nops < max
  /\ \E oldPath \in TreePathArgs, newPath \in TreePathArgs :
       CommitNames(soLink(Cur, oldPath, newPath, FALSE), "soLink", 0, 0, oldPath, newPath)

Rename(max) ==
  /\ nops < max
  /\ \E oldPath \in TreePathArgs, newPath \in TreePathArgs :
       CommitNames(soRename(Cur, oldPath, newPath, FALSE), "soRename", 0, 0, oldPath, newPath)

NextTree ==
  \/ Mkdir(MaxTreeOps) \/ MknodTree(MaxTreeOps) \/ Rmdir(MaxTreeOps)
  \/ Link(MaxTreeOps) \/ Rename(MaxTreeOps)
SpecTree == InitTree /\ [][NextTree]_vars

\* the tree: every named entry <<directory, name, inode>> of the directories in use
Entries ==
  {<<q[1], EntryAt(q).name, EntryAt(q).nInode>> : q \in {p \in DirSlots : EntryAt(p).name # ""}}

Refcounts == [n \in InodeNums |-> inode[n].refcount]

\* the inode a path resolves to in the current volume, NULL_INODE when it does not resolve
ResolvedIn(S, p) ==
  IF soGetDirEntryByPath(S, p, FALSE).err = "OK"
  THEN soGetDirEntryByPath(S, p, FALSE).val.nInodeEnt
  ELSE NULL_INODE

Resolved(p) == ResolvedIn(Cur, p)

C23_ThrowawayNameUnique ==
  [][(ret'.op = "soRename" /\ Resolved(ret'.s2) # NULL_INODE) =>
       /\ soUniqueName(basename(ret'.s2)) # basename(ret'.s2)
       /\ ~HasName(Resolved(dirname(ret'.s2)), soUniqueName(basename(ret'.s2)))
       /\ ret'.err # "EEXIST"]_vars

\* newPath lies inside oldPath: oldPath is a proper prefix of it, component by component
Inside(oldPath, newPath) ==
  /\ Len(newPath.comps) > Len(oldPath.comps)
  /\ SubSeq(newPath.comps, 1, Len(oldPath.comps)) = oldPath.comps

\* C24: a soRename of absolute paths whose oldPath resolves to a directory
\* fails with EINVAL and leaves the volume as it was when newPath lies inside
\* oldPath, and does not fail with EINVAL when it does not.
C24_NoMoveIntoItself ==
  [][(ret'.op = "soRename" /\ Resolved(ret'.s) # NULL_INODE /\ IsDir(inode[Resolved(ret'.s)])) =>
       IF Inside(ret'.s, ret'.s2) THEN ret'.err = "EINVAL" /\ Cur' = Cur
       ELSE ret'.err # "EINVAL"]_vars

\* path p resolves to a regular file
FileAt(p) == Resolved(p) # NULL_INODE /\ IsFile(Resolved(p))

AllocInodeRelink(S, nextInodeN, nInode) ==
  IF nextInodeN = NULL_INODE THEN Res([S EXCEPT !.sb.ifree = @ - 1], "OK", nInode)
  ELSE IF nextInodeN \notin InodeNums THEN Res(S, "EINVAL", NULL_INODE)
  ELSE Res([S EXCEPT !.inode[nextInodeN].vD2 = NULL_INODE, !.sb.ifree = @ - 1], "OK", nInode)

\* the head inode initialised as an inode in use of the type
AllocInodeFill(S, nInode, type) ==
  [S EXCEPT !.inode[nInode] = [mode |-> [flags |-> {type}, perm |-> 0], refcount |-> 0,
                               owner |-> getuid, group |-> getgid, size |-> 0, clucount |-> 0,
                               vD1 |-> NOW, vD2 |-> NOW, d |-> NullDirect,
                               i1 |-> NULL_CLUSTER, i2 |-> NULL_CLUSTER],
            !.sb.ihead = IF S.sb.ifree = 1 THEN NULL_INODE ELSE S.inode[nInode].vD1,
            !.sb.itail = IF S.sb.ifree = 1 THEN NULL_INODE ELSE @]

soAllocInode_2_wi(S, type) ==
  IF type \notin INODE_TYPE_MASK THEN Res(S, "EINVAL", NULL_INODE)
  ELSE IF soQCheckInT(S.sb) # "OK" THEN Res(S, soQCheckInT(S.sb), NULL_INODE)
  ELSE IF S.sb.ifree = 0 THEN Res(S, "ENOSPC", NULL_INODE)
  ELSE IF S.sb.ihead \notin InodeNums THEN Res(S, "EINVAL", NULL_INODE)
  ELSE IF soQCheckFInode(S.inode[S.sb.ihead]) # "OK"
  THEN Res(S, soQCheckFInode(S.inode[S.sb.ihead]), NULL_INODE)
  ELSE AllocInodeRelink(AllocInodeFill(S, S.sb.ihead, type), S.inode[S.sb.ihead].vD1,
                        S.sb.ihead)

(***************************************************************************)
(* Inodes that are freed and handed out again: files and directories are   *)
(* made in the root, files are given clusters, names are removed, and      *)
(* either soAllocInode is called.  The volume starts with two files in the *)
(* root, so that one free inode is left and the next inode freed is the    *)
(* next one handed out.                                                    *)
(***************************************************************************)
Populated ==
  soMknod(soMknod(mkfs, Path(TRUE, <<"A">>), 420, FALSE).S, Path(TRUE, <<"D">>), 420, FALSE).S
ReusePathArgs == {Path(TRUE, <<"a">>), Path(TRUE, <<"d">>)}
ReuseNameArgs == {"a", "d"}
\* one logical cluster of the direct, of the single and of the double indirect zone
ReuseClustIndArgs == {0, N_DIRECT, N_DIRECT + RPC}
ReuseInodeArgs == 1 .. 3

InitReuse ==
  /\ cred = [uid |-> 0, gid |-> 0]
  /\ sb = Populated.sb
  /\ inode = Populated.inode
  /\ clust = Populated.clust
  /\ ret = [NoCall EXCEPT !.s = NoPath, !.s2 = NoPath]
  /\ nops = 0

MkdirReuse(max) ==
  /\ nops < max
  /\ \E ePath \in ReusePathArgs :
       CommitNames(soMkdir(Cur, ePath, 511, FALSE), "soMkdir", 511, 0, ePath, NoPath)

MknodReuse(max) ==
  /\ nops < max
  /\ \E ePath \in ReusePathArgs :
       CommitNames(soMknod(Cur, ePath, 420, FALSE), "soMknod", 420, 0, ePath, NoPath)

RmdirReuse(max) ==
  /\ nops < max
  /\ \E ePath \in ReusePathArgs :
       CommitNames(soRmdir(Cur, ePath, FALSE), "soRmdir", 0, 0, ePath, NoPath)

RemoveLink(max) ==
  /\ nops < max
  /\ \E name \in ReuseNameArgs :
       CommitNames(soRemoveDirEntry(Cur, 0, name), "soRemoveDirEntry", 0, 0,
                   Path(FALSE, <<name>>), NoPath)

GrowFile(max) ==
  /\ nops < max
  /\ \E n \in ReuseInodeArgs, i \in ReuseClustIndArgs :
       CommitNames(soHandleFileCluster(Cur, n, i, ALLOC), "soHandleFileCluster", n, i, NoPath,
                   NoPath)

AllocInodeAgain(max) ==
  /\ nops < max
  /\ \E type \in {INODE_DIR, INODE_FILE} :
       \/ CommitNames(soAllocInode(Cur, type), "soAllocInode", 0, 0, NoPath, NoPath)
       \/ CommitNames(soAllocInode_2_wi(Cur, type), "soAllocInode_2_wi", 0, 0, NoPath, NoPath)

NextReuse ==
  \/ MkdirReuse(MaxReuseOps) \/ MknodReuse(MaxReuseOps) \/ RmdirReuse(MaxReuseOps)
  \/ RemoveLink(MaxReuseOps) \/ GrowFile(MaxReuseOps) \/ AllocInodeAgain(MaxReuseOps)
SpecReuse == InitReuse /\ [][NextReuse]_vars

\* a free inode that is not in the clean state
FreeDirty(n) ==
  /\ n \in InodeNums
  /\ soQCheckFDInode(sb, inode[n]) = "OK"
  /\ soQCheckFCInode(inode[n]) # "OK"

\* the reference clusters inode n holds through i1 and i2
HeldRefClusters(n) ==
  {c \in ClustNums : /\ \/ c \in {inode[n].i1, inode[n].i2}
                        \/ \E j \in 0 .. (RPC - 1) : RefsOf(inode[n].i2)[j] = c
                     /\ clust[c].stat = n
                     /\ c \notin FreeClusters}

AllocInodeOps == {"soAllocInode", "soAllocInode_2_wi"}

\* C26: an inode freed by soRmdir or by the removal of its last link is
\* free-dirty; and when a soAllocInode returns an inode that was free-dirty,
\* the inode returned is in use with every direct reference, i1 and i2
\* NULL_CLUSTER, refcount, size and clucount 0 and the mode the requested
\* type, and every reference cluster it held through i1/i2 is free again.
C26_DirtyInodeCleaned ==
  [][/\ (ret'.op \in {"soRmdir", "soRemoveDirEntry"} /\ ret'.err = "OK")
          => \A n \in InodeNums : (InUse(n) /\ ~InUse(n)') => FreeDirty(n)'
     /\ (ret'.op \in AllocInodeOps /\ ret'.err = "OK" /\ FreeDirty(ret'.val))
          => /\ INODE_FREE \notin inode'[ret'.val].mode.flags
             /\ inode'[ret'.val].d = NullDirect
             /\ inode'[ret'.val].i1 = NULL_CLUSTER
             /\ inode'[ret'.val].i2 = NULL_CLUSTER
             /\ inode'[ret'.val].refcount = 0
             /\ inode'[ret'.val].size = 0
             /\ inode'[ret'.val].clucount = 0
             /\ inode'[ret'.val].mode.flags \cap INODE_TYPE_MASK # {}
             /\ Cardinality(inode'[ret'.val].mode.flags) = 1
             /\ HeldRefClusters(ret'.val) \subseteq FreeClusters']_vars


\* C27: after a successful soHandleFileCluster with op FREE, FREE_CLEAN or
\* CLEAN on a direct index i < N_DIRECT of an inode in use whose d[i] was
\* not NULL_CLUSTER, d[i] is NULL_CLUSTER and clucount is one less.
C27_DirectReleaseNullsRef ==
  [][(/\ ret'.op = "soHandleFileCluster" /\ ret'.err = "OK"
      /\ ret'.s \in {FREE, FREE_CLEAN, CLEAN}
      /\ ret'.b < N_DIRECT
      /\ InUse(ret'.a)
      /\ inode[ret'.a].d[ret'.b] # NULL_CLUSTER)
        => /\ inode'[ret'.a].d[ret'.b] = NULL_CLUSTER
           /\ inode'[ret'.a].clucount = inode[ret'.a].clucount - 1]_vars

(***************************************************************************)
(* mkfs for any device and any requested number of inodes.  The device is  *)
(* a backing file of sb.devsize blocks; sb is the superblock in block 0,   *)
(* inode the inode table in the blocks after it and clust the clusters of  *)
(* the data zone, by logical number.  Blocks that mkfs did not write are   *)
(* not represented.  The arithmetic is that of uint32_t.                   *)
(***************************************************************************)
U32(x) == x % Word

\* an unsigned value read as a reference: all ones is the null reference
RefOf(x) == IF x = Word - 1 THEN NULL_INODE ELSE x

NoInodes == [n \in {} |-> 0]
NoClusters == [c \in {} |-> 0]
EmptyCache == [i \in 0 .. (DZONE_CACHE_SIZE - 1) |-> NULL_CLUSTER]

\* a backing file of dev blocks that was never formatted
BlankDevice(dev) ==
  [ sb |-> [ devsize |-> dev, magic |-> 0, ntotal |-> 0, mstat |-> PRU, itable_start |-> 0,
             itable_size |-> 0, itotal |-> 0, ifree |-> 0, ihead |-> 0, itail |-> 0,
             dzone_start |-> 0, dzone_total |-> 0, dzone_free |-> 0,
             dzone_retriev |-> [cache_idx |-> 0, cache |-> EmptyCache],
             dzone_insert |-> [cache_idx |-> 0, cache |-> EmptyCache],
             dhead |-> 0, dtail |-> 0 ],
    inode |-> NoInodes,
    clust |-> NoClusters ]

\* the number of inodes to make room for: the -i argument, or an eighth of the blocks
Requested(ntotal, itotalArg) == IF itotalArg = 0 THEN ntotal \div 8 ELSE itotalArg

InodeBlocks(n) == IF n % IPB = 0 THEN n \div IPB ELSE n \div IPB + 1

nclusttotalOf(ntotal, itotalArg) ==
  U32(ntotal - 1 - InodeBlocks(Requested(ntotal, itotalArg))) \div BLOCKS_PER_CLUSTER

iblktotalOf_NoAdjust(ntotal, itotalArg) == InodeBlocks(Requested(ntotal, itotalArg))

\* the final adjustment: the inode table takes the blocks the clusters leave
iblktotalOf(ntotal, itotalArg) ==
  U32(ntotal - 1 - nclusttotalOf(ntotal, itotalArg) * BLOCKS_PER_CLUSTER)

itotalOf(ntotal, itotalArg) == U32(iblktotalOf(ntotal, itotalArg) * IPB)

\* soWriteCacheBlock / soWriteCacheCluster of count blocks at block nBlk
InDevice(S, nBlk, count) == nBlk >= 0 /\ nBlk + count <= S.sb.devsize

fillInSuperBlockOn(S, ntotal, itotalV, nclusttotal) ==
  IF ~InDevice(S, 0, 1) THEN Res(S, "EIO", 0)
  ELSE Res([S EXCEPT !.sb =
              [ devsize |-> S.sb.devsize, magic |-> UNFORMATTED, ntotal |-> ntotal, mstat |-> PRU,
                itable_start |-> 1, itable_size |-> itotalV \div IPB, itotal |-> itotalV,
                ifree |-> U32(itotalV - 1), ihead |-> 1, itail |-> RefOf(U32(itotalV - 1)),
                dzone_start |-> 1 + itotalV \div IPB, dzone_total |-> nclusttotal,
                dzone_free |-> U32(nclusttotal - 1),
                dzone_retriev |-> [cache_idx |-> DZONE_CACHE_SIZE, cache |-> EmptyCache],
                dzone_insert |-> [cache_idx |-> 0, cache |-> EmptyCache],
                dhead |-> 1, dtail |-> RefOf(U32(nclusttotal - 1)) ]],
           "OK", 0)

FreeInodeOn(p_sb, n) ==
  [ mode |-> [flags |-> {INODE_FREE}, perm |-> 0],
    refcount |-> 0, owner |-> 0, group |-> 0, size |-> 0, clucount |-> 0,
    vD1 |-> IF n = p_sb.itable_size * IPB - 1 THEN NULL_INODE ELSE n + 1,
    vD2 |-> IF n = 1 THEN NULL_INODE ELSE n - 1,
    d |-> NullDirect, i1 |-> NULL_CLUSTER, i2 |-> NULL_CLUSTER ]

\* the last block of the inode table that mkfs tries to write: block 1 always
LastInodeBlock(p_sb) == IF p_sb.dzone_start - 1 > 1 THEN p_sb.dzone_start - 1 ELSE 1

\* the blocks of the table are written in order, up to the first that fails
fillInINTOn(S) ==
  Res([S EXCEPT !.inode =
         [n \in 0 .. ((IF InDevice(S, LastInodeBlock(S.sb), 1) THEN LastInodeBlock(S.sb)
                       ELSE IF S.sb.devsize > 1 THEN S.sb.devsize - 1 ELSE 0) * IPB - 1) |->
            IF n = 0 THEN [fillInINT[0] EXCEPT !.owner = getuid, !.group = getgid]
            ELSE FreeInodeOn(S.sb, n)]],
      IF InDevice(S, LastInodeBlock(S.sb), 1) THEN "OK" ELSE "EIO", 0)

\* the root cluster is written at dzone_start, over whatever is there
fillInRootDirOn(S) ==
  IF ~InDevice(S, S.sb.dzone_start, BLOCKS_PER_CLUSTER) THEN Res(S, "EIO", 0)
  ELSE Res([S EXCEPT !.inode = [n \in {m \in DOMAIN S.inode : m < (S.sb.dzone_start - 1) * IPB} |->
                                  S.inode[n]],
                     !.clust = [c \in {0} |-> fillInRootDir]],
           "OK", 0)

\* physical number of the last cluster of the data zone
lastCluster(p_sb) ==
  U32(p_sb.dzone_start + p_sb.dzone_total * BLOCKS_PER_CLUSTER - BLOCKS_PER_CLUSTER)

lastLogNum(p_sb) == (lastCluster(p_sb) - p_sb.dzone_start) \div BLOCKS_PER_CLUSTER

\* currCluster as it is written at logical number c; body is its data part,
\* zeroed in zero mode and never initialised otherwise
GenRepCluster(p_sb, c, body) ==
  [ prev |-> IF c <= 1 THEN NULL_CLUSTER ELSE c - 1,
    next |-> IF c = lastLogNum(p_sb) THEN NULL_CLUSTER ELSE c + 1,
    stat |-> NULL_INODE,
    info |-> body ]

\* the clusters from logical 1 on are written in order, then the last one,
\* unconditionally
fillInGenRepOn(S, body) ==
  IF ~InDevice(S, lastCluster(S.sb), BLOCKS_PER_CLUSTER) \/ lastCluster(S.sb) < S.sb.dzone_start
  THEN Res(S, "EIO", 0)
  ELSE Res([S EXCEPT !.clust = [c \in 0 .. lastLogNum(S.sb) |->
                                  IF c = 0 /\ lastLogNum(S.sb) # 0 THEN S.clust[0]
                                  ELSE GenRepCluster(S.sb, c, body)]],
           "OK", 0)

RefInRangeOrNull(x, total) == x = NULL_INODE \/ (x >= 0 /\ x < total)

\* superblock internally consistent, inode table sizes add up
soQCheckSuperBlock(p_sb) ==
  IF p_sb.magic # MAGIC_NUMBER THEN "EMAGIC"
  ELSE IF p_sb.itable_start # 1 \/ p_sb.itotal # p_sb.itable_size * IPB
          \/ p_sb.ifree > p_sb.itotal
          \/ ~RefInRangeOrNull(p_sb.ihead, p_sb.itotal)
          \/ ~RefInRangeOrNull(p_sb.itail, p_sb.itotal)
  THEN "EINTINVAL"
  ELSE IF p_sb.dzone_start # p_sb.itable_start + p_sb.itable_size
          \/ p_sb.dzone_free > p_sb.dzone_total
          \/ p_sb.dzone_retriev.cache_idx > DZONE_CACHE_SIZE
          \/ p_sb.dzone_insert.cache_idx > DZONE_CACHE_SIZE
  THEN "EDZINVAL"
  ELSE "OK"

InodeIUOn(S, n) ==
  /\ n \in DOMAIN S.inode
  /\ INODE_FREE \notin S.inode[n].mode.flags
  /\ Cardinality(S.inode[n].mode.flags \cap INODE_TYPE_MASK) = 1
  /\ \A i \in 0 .. (N_DIRECT - 1) : RefInRangeOrNull(S.inode[n].d[i], S.sb.dzone_total)
  /\ RefInRangeOrNull(S.inode[n].i1, S.sb.dzone_total)
  /\ RefInRangeOrNull(S.inode[n].i2, S.sb.dzone_total)

DirContOn(S, n) ==
  /\ IsDir(S.inode[n])
  /\ S.inode[n].size > 0 /\ S.inode[n].size % DPC = 0
  /\ S.inode[n].d[0] \in DOMAIN S.clust
  /\ DirView(S.clust[S.inode[n].d[0]].info)[0] = [nInode |-> n, name |-> "."]
  /\ DirView(S.clust[S.inode[n].d[0]].info)[1].name = ".."
  /\ DirView(S.clust[S.inode[n].d[0]].info)[1].nInode \in DOMAIN S.inode

checkFSConsist(S) ==
  IF soQCheckSuperBlock(S.sb) # "OK" THEN soQCheckSuperBlock(S.sb)
  ELSE IF ~InodeIUOn(S, 0) THEN "EIUININVAL"
  ELSE IF ~DirContOn(S, 0) THEN "EDIRINVAL"
  ELSE "OK"

\* main of mkfs from the point pc on; zero is the -z option and body what
\* the never initialised currCluster of fillInGenRep holds
RECURSIVE FormatFrom(_, _, _, _, _)
FormatFrom(pc, Rk, itotalArg, zero, body) ==
  IF Rk.err # "OK" THEN Rk
  ELSE IF pc = "sb"
  THEN FormatFrom("int",
                  fillInSuperBlockOn(Rk.S, Rk.S.sb.devsize, itotalOf(Rk.S.sb.devsize, itotalArg),
                                     nclusttotalOf(Rk.S.sb.devsize, itotalArg)),
                  itotalArg, zero, body)
  ELSE IF pc = "int" THEN FormatFrom("root", fillInINTOn(Rk.S), itotalArg, zero, body)
  ELSE IF pc = "root" THEN FormatFrom("rep", fillInRootDirOn(Rk.S), itotalArg, zero, body)
  ELSE IF pc = "rep"
  THEN FormatFrom("magic", fillInGenRepOn(Rk.S, IF zero THEN [kind |-> "zero"] ELSE body),
                  itotalArg, zero, body)
  ELSE IF pc = "magic"
  THEN FormatFrom("check", Res([Rk.S EXCEPT !.sb.magic = MAGIC_NUMBER], "OK", 0), itotalArg, zero,
                  body)
  ELSE Res(Rk.S, checkFSConsist(Rk.S), 0)

main_mkfs(S, itotalArg, zero, body) == FormatFrom("sb", Res(S, "OK", 0), itotalArg, zero, body)

(***************************************************************************)
(* The mount and the clean unmount of a volume, and fsck.                  *)
(***************************************************************************)
\* mount: the magic number is checked, and that the volume was properly
\* unmounted; mstat is cleared
soMount(S) ==
  IF S.sb.magic # MAGIC_NUMBER THEN Res(S, "EINVAL", 0)
  ELSE IF S.sb.mstat # PRU THEN Res(S, "EBUSY", 0)
  ELSE Res([S EXCEPT !.sb.mstat = NPRU], "OK", 0)

\* unmount: mstat is set
soUnmount(S) ==
  IF S.sb.magic # MAGIC_NUMBER \/ S.sb.mstat # NPRU THEN Res(S, "EINVAL", 0)
  ELSE Res([S EXCEPT !.sb.mstat = PRU], "OK", 0)

\* a reference as the unsigned value the comparisons of fsck see
Unsigned(x) == IF x < 0 THEN Word - 1 ELSE x

fsckCheckSuperBlockHeader(p_sb) ==
  IF p_sb.magic # MAGIC_NUMBER THEN "EMAGIC"
  ELSE IF p_sb.mstat # PRU THEN "EMSTAT"
  ELSE "OK"

fsckCheckSBInodeMetaData(p_sb) ==
  IF p_sb.itable_start # 1 THEN "ESBISTART"
  ELSE IF p_sb.itable_size # p_sb.itotal \div IPB THEN "ESBISIZE"
  ELSE IF p_sb.itotal < p_sb.itable_size * IPB THEN "ESBITOTAL"
  ELSE IF p_sb.ifree > U32(p_sb.itotal - 1) THEN "ESBIFREE"
  ELSE IF Unsigned(p_sb.ihead) >= p_sb.itotal THEN "EIBADHEAD"
  ELSE IF Unsigned(p_sb.itail) >= p_sb.itotal THEN "EIBADTAIL"
  ELSE "OK"

fsckCheckDZoneMetaData(p_sb, ntotal) ==
  IF p_sb.dzone_start # p_sb.itable_start + p_sb.itable_size THEN "ESBDZSTART"
  ELSE IF p_sb.dzone_total # U32(ntotal - 1 - InodeBlocks(p_sb.itotal)) \div BLOCKS_PER_CLUSTER
  THEN "ESBDZTOTAL"
  ELSE "OK"

IsFreeOn(S, n) == n \in DOMAIN S.inode /\ INODE_FREE \in S.inode[n].mode.flags

\* what the scan of the inode table finds wrong with inode n, the inodes
\* before it having passed
InodeFault(S, n) ==
  IF ~IsFreeOn(S, n) THEN "OK"
  ELSE IF /\ S.inode[n].vD2 = NULL_INODE
          /\ \/ \E m \in 0 .. (n - 1) : IsFreeOn(S, m) /\ S.inode[m].vD2 = NULL_INODE
             \/ S.sb.ihead # n
  THEN "EIBADHEAD"
  ELSE IF S.inode[n].vD2 # NULL_INODE /\ S.inode[n].vD2 > S.sb.itotal + 1 THEN "EIBADINODEREF"
  ELSE IF /\ S.inode[n].vD1 = NULL_INODE
          /\ \/ \E m \in 0 .. (n - 1) : IsFreeOn(S, m) /\ S.inode[m].vD1 = NULL_INODE
             \/ S.sb.itail # n
  THEN "EIBADTAIL"
  ELSE IF S.inode[n].vD1 # NULL_INODE /\ S.inode[n].vD1 > S.sb.itotal + 1 THEN "EIBADINODEREF"
  ELSE "OK"

FaultyInodes(S) == {n \in 0 .. (S.sb.itable_size * IPB - 1) : InodeFault(S, n) # "OK"}

\* the scan reads IPB + 1 inodes from every block of IPB inodes; phantom is
\* the number of those reads past the end of a block that find the free bit
\* set, with references in range
fsckCheckInodeTable(S, phantom) ==
  IF \E n \in 0 .. (S.sb.itable_size * IPB - 1) : n \notin DOMAIN S.inode THEN "EIO"
  ELSE IF FaultyInodes(S) # {} THEN InodeFault(S, Min(FaultyInodes(S)))
  ELSE IF S.sb.ifree # Cardinality({n \in 0 .. (S.sb.itable_size * IPB - 1) : IsFreeOn(S, n)})
                          + phantom
  THEN "EBADFREECOUNT"
  ELSE "OK"

RECURSIVE InodeListFrom(_, _, _, _)
InodeListFrom(S, prev_inode, next_inode, count) ==
  IF next_inode \notin DOMAIN S.inode \/ next_inode >= S.sb.itotal THEN "EINVAL"
  ELSE IF ~IsFreeOn(S, next_inode) THEN "EILLNOTFREE"
  ELSE IF count + 1 > S.sb.ifree THEN "EILLLOOP"
  ELSE IF S.inode[next_inode].vD2 # prev_inode THEN "EILLBROKEN"
  ELSE IF S.inode[next_inode].vD1 # NULL_INODE
  THEN InodeListFrom(S, next_inode, S.inode[next_inode].vD1, count + 1)
  ELSE IF S.sb.ifree # count + 1 THEN "EBADFREECOUNT"
  ELSE "OK"

fsckCheckInodeList(S) == InodeListFrom(S, NULL_INODE, S.sb.ihead, 0)

\* soReadCacheCluster of logical cluster c
Readable(S, c) ==
  /\ c \in DOMAIN S.clust
  /\ InDevice(S, c * BLOCKS_PER_CLUSTER + S.sb.dzone_start, BLOCKS_PER_CLUSTER)

OnList(cl) == cl.prev # NULL_CLUSTER \/ cl.next # NULL_CLUSTER

fsckCheckCltCaches(S) ==
  IF S.sb.dzone_retriev.cache_idx > DZONE_CACHE_SIZE THEN "ERCACHEIDX"
  ELSE IF \E i \in S.sb.dzone_retriev.cache_idx .. (DZONE_CACHE_SIZE - 1) :
            S.sb.dzone_retriev.cache[i] = NULL_CLUSTER
  THEN "ERCACHEIDX"
  ELSE IF \E i \in S.sb.dzone_retriev.cache_idx .. (DZONE_CACHE_SIZE - 1) :
            ~Readable(S, S.sb.dzone_retriev.cache[i])
  THEN "EIO"
  ELSE IF \E i \in S.sb.dzone_retriev.cache_idx .. (DZONE_CACHE_SIZE - 1) :
            OnList(S.clust[S.sb.dzone_retriev.cache[i]])
  THEN "ERCACHEREF"
  ELSE IF \E i \in S.sb.dzone_retriev.cache_idx .. (DZONE_CACHE_SIZE - 1) :
            S.clust[S.sb.dzone_retriev.cache[i]].stat # NULL_INODE
  THEN "ERCLTREF"
  ELSE IF S.sb.dzone_insert.cache_idx > DZONE_CACHE_SIZE THEN "EICACHEIDX"
  ELSE IF \E i \in 0 .. (S.sb.dzone_insert.cache_idx - 1) :
            S.sb.dzone_insert.cache[i] = NULL_CLUSTER
  THEN "EICACHEIDX"
  ELSE IF \E i \in 0 .. (S.sb.dzone_insert.cache_idx - 1) :
            ~Readable(S, S.sb.dzone_insert.cache[i])
  THEN "EIO"
  ELSE IF \E i \in 0 .. (S.sb.dzone_insert.cache_idx - 1) :
            OnList(S.clust[S.sb.dzone_insert.cache[i]])
  THEN "EICACHEREF"
  ELSE "OK"

\* what the scan of the data zone finds wrong with cluster c, the clusters
\* before it having passed
ClusterFault(S, c) ==
  IF ~OnList(S.clust[c]) THEN "OK"
  ELSE IF /\ S.clust[c].prev = NULL_CLUSTER
          /\ \/ \E m \in 0 .. (c - 1) : OnList(S.clust[m]) /\ S.clust[m].prev = NULL_CLUSTER
             \/ S.sb.dhead # c
  THEN "EDZBADHEAD"
  ELSE IF S.clust[c].prev # NULL_CLUSTER /\ S.clust[c].prev > S.sb.dzone_total + 1
  THEN "EDZLLBADREF"
  ELSE IF /\ S.clust[c].next = NULL_CLUSTER
          /\ \/ \E m \in 0 .. (c - 1) : OnList(S.clust[m]) /\ S.clust[m].next = NULL_CLUSTER
             \/ S.sb.dtail # c
  THEN "EDZBADTAIL"
  ELSE IF S.clust[c].next # NULL_CLUSTER /\ S.clust[c].next > S.sb.dzone_total + 1
  THEN "EDZLLBADREF"
  ELSE "OK"

FaultyClusters(S) == {c \in 0 .. (S.sb.dzone_total - 1) : ClusterFault(S, c) # "OK"}

\* the clusters with an empty header and no owner, taken to be those of the
\* retrieval cache
retriev_count(S) ==
  Cardinality({c \in 0 .. (S.sb.dzone_total - 1) :
                 ~OnList(S.clust[c]) /\ S.clust[c].stat = NULL_INODE})

llist_count(S) == Cardinality({c \in 0 .. (S.sb.dzone_total - 1) : OnList(S.clust[c])})

fsckCheckDataZone(S) ==
  IF \E c \in 0 .. (S.sb.dzone_total - 1) : ~Readable(S, c) THEN "EIO"
  ELSE IF FaultyClusters(S) # {} THEN ClusterFault(S, Min(FaultyClusters(S)))
  ELSE IF DZONE_CACHE_SIZE - S.sb.dzone_retriev.cache_idx # retriev_count(S) THEN "ERMISSCLT"
  ELSE IF S.sb.dzone_free # retriev_count(S) + llist_count(S) + S.sb.dzone_insert.cache_idx
  THEN "EFREECLT"
  ELSE "OK"

\* the walk of the list of free clusters, bounded by the number of free inodes
RECURSIVE CltLListFrom(_, _, _, _)
CltLListFrom(S, prev_cluster, next_cluster, count) ==
  IF next_cluster = NULL_CLUSTER THEN "OK"
  ELSE IF ~Readable(S, next_cluster) THEN "EIO"
  ELSE IF count + 1 > S.sb.ifree THEN "EDZLLLOOP"
  ELSE IF S.clust[next_cluster].prev # prev_cluster THEN "EDZLLBROKEN"
  ELSE CltLListFrom(S, next_cluster, S.clust[next_cluster].next, count + 1)

fsckCheckCltLList(S) == CltLListFrom(S, NULL_CLUSTER, S.sb.dhead, 0)

\* every cluster is referenced from at most one place of the inodes in use
fsckCheckInodeClusters(S) ==
  IF \E c \in DOMAIN S.clust :
       Cardinality({<<n, i>> \in (DOMAIN S.inode) \X (0 .. (N_DIRECT + 1)) :
                      /\ ~IsFreeOn(S, n)
                      /\ c = (IF i < N_DIRECT THEN S.inode[n].d[i]
                              ELSE IF i = N_DIRECT THEN S.inode[n].i1 ELSE S.inode[n].i2)}) > 1
  THEN "EDOUBLEREF"
  ELSE "OK"

\* main of fsck: the passes in order, stopping at the first that reports
fsck(S, phantom) ==
  IF ~InDevice(S, 0, 1) THEN "EIO"
  ELSE IF fsckCheckSuperBlockHeader(S.sb) # "OK" THEN fsckCheckSuperBlockHeader(S.sb)
  ELSE IF fsckCheckSBInodeMetaData(S.sb) # "OK" THEN fsckCheckSBInodeMetaData(S.sb)
  ELSE IF fsckCheckDZoneMetaData(S.sb, S.sb.devsize) # "OK"
  THEN fsckCheckDZoneMetaData(S.sb, S.sb.devsize)
  ELSE IF fsckCheckInodeTable(S, phantom) # "OK" THEN fsckCheckInodeTable(S, phantom)
  ELSE IF fsckCheckInodeList(S) # "OK" THEN fsckCheckInodeList(S)
  ELSE IF fsckCheckCltCaches(S) # "OK" THEN fsckCheckCltCaches(S)
  ELSE IF fsckCheckDataZone(S) # "OK" THEN fsckCheckDataZone(S)
  ELSE IF fsckCheckCltLList(S) # "OK" THEN fsckCheckCltLList(S)
  ELSE fsckCheckInodeClusters(S)

DeviceArgs == 0 .. MaxBlocks
RequestArgs == 0 .. MaxRequest
\* what the never initialised cluster buffer may hold: zeros, the root
\* directory written just before from the same stack area, or anything else
JunkBodies == {[kind |-> "zero"], fillInRootDir.info, [kind |-> "junk"]}
PhantomArgs == 0 .. 1

InitFormat ==
  /\ cred = [uid |-> 0, gid |-> 0]
  /\ \E dev \in DeviceArgs :
       /\ sb = BlankDevice(dev).sb
       /\ inode = BlankDevice(dev).inode
       /\ clust = BlankDevice(dev).clust
  /\ ret = [NoCall EXCEPT !.op = "none"]
  /\ nops = 0

Format(max) ==
  /\ nops < max
  /\ \E itotalArg \in RequestArgs, zero \in BOOLEAN, body \in JunkBodies :
       /\ zero => body = [kind |-> "zero"]
       /\ Commit(main_mkfs(Cur, itotalArg, zero, body), "mkfs", itotalArg, IF zero THEN 1 ELSE 0,
                 "")

Mount(max) ==
  /\ nops < max
  /\ Commit(soMount(Cur), "mount", 0, 0, "")

Unmount(max) ==
  /\ nops < max
  /\ Commit(soUnmount(Cur), "unmount", 0, 0, "")

Fsck(max) ==
  /\ nops < max
  /\ \E phantom \in PhantomArgs :
       Commit(Res(Cur, fsck(Cur, phantom), 0), "fsck", phantom, 0, "")

NextFormat ==
  Format(MaxFormatOps) \/ Mount(MaxFormatOps) \/ Unmount(MaxFormatOps) \/ Fsck(MaxFormatOps)
SpecFormat == InitFormat /\ [][NextFormat]_vars

\* mkfs ran last and accepted the device
Accepted == ret.op = "mkfs" /\ ret.err = "OK"

\* C28: for every device size and requested inode count that mkfs accepts,
\* the superblock has ntotal = 1 + itable_size + dzone_total * BPC, itotal =
\* itable_size * IPB with itable_size at least the blocks the request needs,
\* and dzone_total >= 1, and no subtraction of the computation went below 0.
C28_GeometryAddsUp ==
  Accepted =>
    /\ sb.ntotal = sb.devsize
    /\ sb.ntotal = 1 + sb.itable_size + sb.dzone_total * BLOCKS_PER_CLUSTER
    /\ sb.itotal = sb.itable_size * IPB
    /\ sb.itable_size >= InodeBlocks(Requested(sb.devsize, ret.a))
    /\ sb.dzone_total >= 1
    /\ sb.devsize - 1 - InodeBlocks(Requested(sb.devsize, ret.a)) >= 0
    /\ sb.devsize - 1 - sb.dzone_total * BLOCKS_PER_CLUSTER >= 0
    /\ sb.ifree = sb.itotal - 1
    /\ sb.dzone_free = sb.dzone_total - 1

\* mkfs accepted a device on which the final adjustment enlarged the inode table
C28_Witness ==
  /\ Accepted
  /\ sb.itable_size > InodeBlocks(Requested(sb.devsize, ret.a))
  /\ sb.dzone_total > 1

\* C29: the volume of every accepted geometry has inode 0 in use as a
\* directory with refcount 2 and d[0] = 0, cluster 0 allocated to inode 0
\* with "." and ".." naming inode 0, the inodes 1 .. itotal-1 free in the
\* clean state and linked in index order from ihead = 1 to itail = itotal-1
\* with ifree = itotal-1, the clusters 1 .. dzone_total-1 linked in index
\* order on the general list with dzone_free = dzone_total-1, and both
\* caches empty.
C29_FreshVolume ==
  Accepted =>
    /\ DOMAIN inode = 0 .. (sb.itotal - 1)
    /\ DOMAIN clust = 0 .. (sb.dzone_total - 1)
    /\ INODE_FREE \notin inode[0].mode.flags /\ IsDir(inode[0])
    /\ inode[0].refcount = 2 /\ inode[0].d[0] = 0
    /\ clust[0].stat = 0
    /\ DirView(clust[0].info)[0] = [nInode |-> 0, name |-> "."]
    /\ DirView(clust[0].info)[1] = [nInode |-> 0, name |-> ".."]
    /\ \A n \in 1 .. (sb.itotal - 1) :
         /\ soQCheckFCInode(inode[n]) = "OK"
         /\ inode[n].vD1 = IF n = sb.itotal - 1 THEN NULL_INODE ELSE n + 1
         /\ inode[n].vD2 = IF n = 1 THEN NULL_INODE ELSE n - 1
    /\ sb.ihead = 1 /\ sb.itail = sb.itotal - 1 /\ sb.ifree = sb.itotal - 1
    /\ \A c \in 1 .. (sb.dzone_total - 1) :
         /\ clust[c].stat = NULL_INODE
         /\ clust[c].next = IF c = sb.dzone_total - 1 THEN NULL_CLUSTER ELSE c + 1
         /\ clust[c].prev = IF c = 1 THEN NULL_CLUSTER ELSE c - 1
    /\ sb.dzone_total > 1 => (sb.dhead = 1 /\ sb.dtail = sb.dzone_total - 1)
    /\ sb.dzone_free = sb.dzone_total - 1
    /\ sb.dzone_retriev.cache_idx = DZONE_CACHE_SIZE
    /\ sb.dzone_insert.cache_idx = 0

\* the volume is as an accepting mkfs leaves the device
FreshlyFormatted ==
  \E itotalArg \in RequestArgs, body \in JunkBodies :
    main_mkfs(BlankDevice(sb.devsize), itotalArg, FALSE, body) = Res(Cur, "OK", 0)

\* C30: fsck, run on a freshly formatted volume after a mount and a clean
\* unmount and nothing else, reports no error, whatever the geometry.
C30_FsckOfFreshVolume ==
  [][(/\ ret'.op = "fsck"
      /\ ret.op = "unmount" /\ ret.err = "OK"
      /\ FreshlyFormatted)
        => ret'.err = "OK"]_vars

(***************************************************************************)
(* The bytes of one regular file: soWrite and soRead on /A, the only file  *)
(* of the volume, called by root.                                          *)
(***************************************************************************)
DataPath == Path(TRUE, <<"A">>)
OneFile == soMknod(mkfs, DataPath, 420, FALSE).S
WriteArgs == 0 .. MaxWrite
DataPosArgs == 0 .. MaxPos

InitData ==
  /\ cred = [uid |-> 0, gid |-> 0]
  /\ sb = OneFile.sb
  /\ inode = OneFile.inode
  /\ clust = OneFile.clust
  /\ ret = [NoCall EXCEPT !.s = NoPath, !.s2 = NoPath, !.val = [n |-> 0]]
  /\ nops = 0

WriteData(max) ==
  /\ nops < max
  /\ \E count \in WriteArgs, pos \in DataPosArgs :
       CommitNames(Counted(soWrite(Cur, DataPath, count, pos, FALSE)), "soWrite", count, pos,
                   DataPath, NoPath)

ReadData(max) ==
  /\ nops < max
  /\ \E count \in WriteArgs, pos \in DataPosArgs :
       CommitNames(soRead(Cur, DataPath, count, pos, FALSE), "soRead", count, pos, DataPath,
                   NoPath)

NextData == WriteData(MaxDataOps) \/ ReadData(MaxDataOps)
SpecData == InitData /\ [][NextData]_vars

\* ceil(n / BSLPC)
ClustersFor(n) == (n + BSLPC - 1) \div BSLPC

\* the reference clusters behind the first k logical clusters of a file
RefClustersFor(k) ==
  IF k <= N_DIRECT THEN 0
  ELSE IF k <= N_DIRECT + RPC THEN 1
  ELSE 2 + (k - N_DIRECT - RPC + RPC - 1) \div RPC

\* the regular file is empty: no byte and no cluster
EmptyFile(n) == IsFile(n) /\ inode[n].size = 0 /\ inode[n].clucount = 0

\* a successful write of ret'.a bytes at position 0 into the empty file
WroteIntoEmpty ==
  /\ ret'.op = "soWrite" /\ ret'.err = "OK" /\ ret'.b = 0
  /\ Resolved(ret'.s) # NULL_INODE /\ EmptyFile(Resolved(ret'.s))

NextMap == HandleFileCluster(MaxMapOps) \/ HandleFileClusters(MaxMapOps)
SpecMap == Init /\ [][NextMap]_vars

\* a successful call of the mapper on inode n, in use
MapperCall(n) ==
  /\ ret'.op \in {"soHandleFileCluster", "soHandleFileClusters"}
  /\ ret'.err = "OK"
  /\ ret'.a = n
  /\ InUse(n)

\* C32: after every successful soHandleFileCluster or soHandleFileClusters
\* call on an inode in use, clucount is the number of non-null references
\* reachable from the inode (d[], i1, i2, the entries of the cluster of i2 and
\* the terminal entries of every reference cluster), and every cluster the
\* call released lowered clucount by exactly one.
C32_ClucountIsRefCount ==
  [][\A n \in InodeNums :
       MapperCall(n) =>
         /\ inode'[n].clucount = Cardinality(OwnedPlaces(n))'
         /\ sb'.dzone_free >= sb.dzone_free =>
              inode[n].clucount - inode'[n].clucount = sb'.dzone_free - sb.dzone_free]_vars

\* entry j is the only non-null entry of the reference cluster c
LastEntry(c, j) ==
  /\ c \in ClustNums
  /\ Refs(Cur, c)[j] # NULL_CLUSTER
  /\ \A k \in 0 .. (RPC - 1) : k # j => Refs(Cur, c)[k] = NULL_CLUSTER

\* a successful FREE_CLEAN of logical cluster i of inode n, in use
FreeCleanCall(n, i) ==
  /\ ret'.op = "soHandleFileCluster" /\ ret'.s = FREE_CLEAN /\ ret'.err = "OK"
  /\ ret'.a = n /\ ret'.b = i
  /\ InUse(n)

\* the outcome of a release: what becomes of clucount, dzone_free, i1 and i2
Released(n, count, i1, i2) ==
  /\ inode'[n].clucount = inode[n].clucount - count
  /\ sb'.dzone_free = sb.dzone_free + count
  /\ inode'[n].i1 = i1
  /\ inode'[n].i2 = i2

\* C33: a successful FREE_CLEAN that removes the last non-null entry of a
\* reference cluster frees that cluster too and nulls its reference one level
\* up: in the single-indirect zone i1 becomes NULL_CLUSTER and clucount drops
\* by 2; in the double-indirect zone the inner reference cluster is freed and
\* its slot in the cluster of i2 nulled, clucount dropping by 2, and when the
\* cluster of i2 thereby holds no reference i2 is freed and nulled as well,
\* clucount dropping by 3; when other entries remain, no reference cluster is
\* freed and clucount drops by 1.
C33_CascadingRelease ==
  [][\A n \in InodeNums :
       /\ \A j \in 0 .. (RPC - 1) :
            FreeCleanCall(n, N_DIRECT + j) =>
              IF LastEntry(inode[n].i1, j)
              THEN /\ Released(n, 2, NULL_CLUSTER, inode[n].i2)
                   /\ inode[n].i1 \in FreeClusters'
              ELSE /\ Released(n, 1, inode[n].i1, inode[n].i2)
                   /\ inode[n].i1 \notin FreeClusters'
                   /\ Refs(Cur, inode[n].i1)' =
                        [Refs(Cur, inode[n].i1) EXCEPT ![j] = NULL_CLUSTER]
       /\ \A j, k \in 0 .. (RPC - 1) :
            FreeCleanCall(n, N_DIRECT + RPC + j * RPC + k) =>
              IF ~LastEntry(Refs(Cur, inode[n].i2)[j], k)
              THEN /\ Released(n, 1, inode[n].i1, inode[n].i2)
                   /\ Refs(Cur, inode[n].i2)[j] \notin FreeClusters'
                   /\ inode[n].i2 \notin FreeClusters'
              ELSE IF ~LastEntry(inode[n].i2, j)
              THEN /\ Released(n, 2, inode[n].i1, inode[n].i2)
                   /\ Refs(Cur, inode[n].i2)[j] \in FreeClusters'
                   /\ inode[n].i2 \notin FreeClusters'
                   /\ Refs(Cur, inode[n].i2)' =
                        [Refs(Cur, inode[n].i2) EXCEPT ![j] = NULL_CLUSTER]
              ELSE /\ Released(n, 3, inode[n].i1, NULL_CLUSTER)
                   /\ Refs(Cur, inode[n].i2)[j] \in FreeClusters'
                   /\ inode[n].i2 \in FreeClusters']_vars

\* a FREE_CLEAN has emptied the double-indirect zone: both reference clusters
\* and the data cluster are free again
C33_Witness ==
  /\ ret.op = "soHandleFileCluster" /\ ret.s = FREE_CLEAN /\ ret.err = "OK"
  /\ ret.b >= N_DIRECT + RPC
  /\ nops = 2
  /\ inode[ret.a].i2 = NULL_CLUSTER
  /\ inode[ret.a].clucount = 1
  /\ sb.dzone_free = dzone_total - 1

\* what GET answers for logical cluster i of inode n
Answer(Rt) == IF Rt.err = "OK" THEN Rt.val ELSE BAD_REF
Mapped(n, i) == Answer(soHandleFileCluster(Cur, n, i, GET))

\* how often cluster c occurs in the free store
FreeOccurrences(c) ==
  Cardinality({i \in 0 .. (DZONE_CACHE_SIZE - 1) :
                 i >= sb.dzone_retriev.cache_idx /\ sb.dzone_retriev.cache[i] = c})
    + Cardinality({i \in 0 .. (DZONE_CACHE_SIZE - 1) :
                     i < sb.dzone_insert.cache_idx /\ sb.dzone_insert.cache[i] = c})
    + Cardinality({i \in 1 .. Len(ClusterFreeList.seq) : ClusterFreeList.seq[i] = c})

\* the reference clusters of inode n: i1, i2 and the clusters named by i2
RefClusterPlaces(n) == {p \in OwnedPlaces(n) : p[2] \in {"i1", "i2", "o"}}

\* a successful soHandleFileClusters(n, start, FREE_CLEAN) on inode n, in use
TruncateCall(n, start) ==
  /\ ret'.op = "soHandleFileClusters" /\ ret'.s = FREE_CLEAN /\ ret'.err = "OK"
  /\ ret'.a = n /\ ret'.b = start
  /\ InUse(n)

\* the calls that map, release and truncate: soHandleFileCluster with ALLOC
\* and with FREE, and soHandleFileClusters with FREE_CLEAN
FreeFileCluster(max) ==
  /\ nops < max
  /\ \E n \in HfcInodeArgs, i \in ClustIndArgs :
       Commit(soHandleFileCluster(Cur, n, i, FREE), "soHandleFileCluster", n, i, FREE)

TruncateFile(max) ==
  /\ nops < max
  /\ \E n \in HfcInodeArgs, i \in ClustIndArgs :
       Commit(soHandleFileClusters(Cur, n, i, FREE_CLEAN), "soHandleFileClusters", n, i, FREE_CLEAN)

\* C34: a successful soHandleFileClusters(nInode, startIdx, FREE_CLEAN)
\* leaves every logical index >= startIdx unmapped and the mapping of every
\* index < startIdx unchanged, puts every cluster that was mapped at an index
\* >= startIdx and every reference cluster that thereby holds no reference
\* into the free store exactly once, and raises dzone_free by the amount by
\* which it lowers clucount.
C34_RangeRelease ==
  [][\A n \in InodeNums : \A start \in 0 .. (MAX_FILE_CLUSTERS - 1) :
       TruncateCall(n, start) =>
         /\ \A i \in 0 .. (MAX_FILE_CLUSTERS - 1) :
              FileClusterOf(n, i)' = IF i >= start THEN NULL_CLUSTER ELSE FileClusterOf(n, i)
         /\ Mapped(n, start)' = NULL_CLUSTER
         /\ \A c \in ClustNums :
              (\E i \in start .. (MAX_FILE_CLUSTERS - 1) : FileClusterOf(n, i) = c)
                => FreeOccurrences(c)' = 1
         /\ \A c \in ClustNums :
              ((\E p \in RefClusterPlaces(n) : RefAt(p) = c) /\ ~AllNull(RefsOf(c))
                 /\ AllNull(RefsOf(c))')
                => FreeOccurrences(c)' = 1
         /\ sb'.dzone_free - sb.dzone_free = inode[n].clucount - inode'[n].clucount]_vars

(***************************************************************************)
(* Power loss inside soAddDirEntry: the volume is left with the writes the *)
(* call had made when it reached one of its steps.                         *)
(***************************************************************************)
\* the steps entered right after a write: the cluster of the new directory,
\* the entry inode, the directory inode, the cluster with the new slot, the
\* size of the directory, the entry inode again
HaltArgs == {"init", "entw", "place", "write", "link", "done"}

AddDirEntryHalted(max) ==
  /\ nops < max
  /\ \E d \in DirArgs, name \in NameArgs, e \in EntArgs, halt \in HaltArgs :
       CommitNames(AddDirEntryUpTo(Cur, d, name, e, halt), "soAddDirEntry", d, e, name, halt)

NextCrash == AllocInode(MaxCrashOps) \/ AddDirEntry(MaxCrashOps) \/ AddDirEntryHalted(MaxCrashOps)
SpecCrash == Init /\ [][NextCrash]_vars

\* directory d has a slot that carries the name and the inode
SlotWritten(d, name, e) ==
  \E q \in DirSlots : q[1] = d /\ EntryAt(q).name = name /\ EntryAt(q).nInode = e

\* a soAddDirEntry(d, name, e) on two inodes in use, d a directory without
\* the name, was cut short
HaltedCall(d, name, e) ==
  /\ ret'.op = "soAddDirEntry" /\ ret'.err = "HALT"
  /\ ret'.a = d /\ ret'.b = e /\ ret'.s = name
  /\ InUseDir(d) /\ InUse(e)

\* C35: at every point of a soAddDirEntry call at which the parent directory
\* has no slot for the new entry yet, no refcount counts the new link: the
\* refcount of the entry inode and (the entry being a directory, for its
\* "..") the refcount of the parent are those from before the call.
C35_SlotBeforeRefcounts ==
  [][\A d, e \in InodeNums : \A name \in NameArgs :
       (HaltedCall(d, name, e) /\ ~SlotWritten(d, name, e)')
         => /\ inode'[e].refcount = inode[e].refcount
            /\ inode'[d].refcount = inode[d].refcount]_vars

\* the clusters on the walk from dhead along next, as far as it stays in range
ListNodes == {ClusterFreeList.seq[i] : i \in 1 .. Len(ClusterFreeList.seq)}

AllocFileCluster(max) ==
  /\ nops < max
  /\ \E n \in HfcInodeArgs, i \in ClustIndArgs :
       Commit(soHandleFileCluster(Cur, n, i, ALLOC), "soHandleFileCluster", n, i, ALLOC)

FreeCleanFileCluster(max) ==
  /\ nops < max
  /\ \E n \in HfcInodeArgs, i \in ClustIndArgs :
       Commit(soHandleFileCluster(Cur, n, i, FREE_CLEAN), "soHandleFileCluster", n, i, FREE_CLEAN)

NextGrow == AllocFileCluster(MaxGrowOps) \/ FreeCleanFileCluster(MaxGrowOps)
SpecGrow == Init /\ [][NextGrow]_vars

NextTrunc ==
  AllocFileCluster(MaxTruncOps) \/ FreeFileCluster(MaxTruncOps) \/ TruncateFile(MaxTruncOps)
SpecTrunc == Init /\ [][NextTrunc]_vars

\* how often cluster c is referenced from the reference trees of the inodes in use
TreeOccurrences(c) == Cardinality({p \in RefPlaces : RefAt(p) = c})

\* C37: in every reachable state, the states left by calls that returned an
\* error among them, every data cluster other than cluster 0 is either once
\* in the free store (retrieval cache, insertion cache or general list) or
\* referenced once from the reference tree of an inode in use, and never both.
C37_FreeOrReferencedOnce ==
  \A c \in ClustNums \ {0} : FreeOccurrences(c) + TreeOccurrences(c) = 1

(***************************************************************************)
(* The three system calls that create an object, on a volume that a file   *)
(* can fill: root makes files, directories and symbolic links in the root  *)
(* and writes into the file /a.                                            *)
(***************************************************************************)
CreatePathArgs == {Path(TRUE, <<"a">>), Path(TRUE, <<"s">>)}
CreateOps == {"soMknod", "soMkdir", "soSymlink"}

MknodCreate(max) ==
  /\ nops < max
  /\ \E ePath \in CreatePathArgs :
       CommitNames(Counted(soMknod(Cur, ePath, 420, FALSE)), "soMknod", 420, 0, ePath, NoPath)

MkdirCreate(max) ==
  /\ nops < max
  /\ \E ePath \in CreatePathArgs :
       CommitNames(Counted(soMkdir(Cur, ePath, 511, FALSE)), "soMkdir", 511, 0, ePath, NoPath)

SymlinkCreate(max) ==
  /\ nops < max
  /\ \E ePath \in CreatePathArgs :
       CommitNames(Counted(soSymlink(Cur, Path(TRUE, <<"a">>), ePath, FALSE)), "soSymlink", 0, 0,
                   ePath, Path(TRUE, <<"a">>))

WriteCreate(max) ==
  /\ nops < max
  /\ \E count \in WriteArgs :
       CommitNames(Counted(soWrite(Cur, Path(TRUE, <<"a">>), count, 0, FALSE)), "soWrite", count,
                   0, Path(TRUE, <<"a">>), NoPath)

NextCreate ==
  \/ MknodCreate(MaxCreateOps) \/ MkdirCreate(MaxCreateOps) \/ SymlinkCreate(MaxCreateOps)
  \/ WriteCreate(MaxCreateOps)
InitCreate ==
  /\ sb = mkfs.sb
  /\ inode = mkfs.inode
  /\ clust = mkfs.clust
  /\ ret = [NoCall EXCEPT !.s = NoPath, !.s2 = NoPath, !.val = [n |-> 0]]
  /\ nops = 0
  /\ cred = [uid |-> 0, gid |-> 0]

SpecCreate == InitCreate /\ [][NextCreate]_vars

\* the inode of the directory in which path names its last component
ParentOf(ePath) == soGetDirEntryByPath(Cur, dirname(ePath), FALSE).val.nInodeEnt

\* the named entries of directory d
NamedEntries(d) ==
  {<<EntryAt(q).name, EntryAt(q).nInode>> : q \in {r \in DirSlots : r[1] = d /\ EntryAt(r).name # ""}}

\* the inodes in use that no directory entry references
Unlinked == {n \in InodeNums : InUse(n) /\ inode[n].refcount = 0}

\* a call of soMknod, soMkdir or soSymlink on path that fails after its soAllocInode
FailedCreate(ePath) ==
  /\ ret'.op \in CreateOps /\ ret'.s = ePath
  /\ ret'.err \notin {"OK", "EINVAL", "ENAMETOOLONG", "ELOOP", "EEXIST", "ENOENT", "EPERM",
                      "EACCES", "ENOTDIR"}
  /\ sb.ifree > 0

\* C38: when soMknod, soMkdir or soSymlink returns an error after it has
\* allocated an inode, ifree is what it was before the call, no inode in
\* use with refcount 0 is left that was not there before, and the entries
\* and the refcount of the parent directory are what they were.
C38_CreateRollsBack ==
  [][\A ePath \in CreatePathArgs : \A d \in InodeNums :
       (FailedCreate(ePath) /\ d = ParentOf(ePath))
         => /\ sb'.ifree = sb.ifree
            /\ Unlinked' \subseteq Unlinked
            /\ NamedEntries(d)' = NamedEntries(d)
            /\ inode'[d].refcount = inode[d].refcount]_vars

\* the inode that DataPath names
DataFile == soGetDirEntryByPath(Cur, DataPath, FALSE).val.nInodeEnt

\* byte k of the file of inode n: a byte of the cluster mapped at its
\* logical index, zero where no cluster is mapped
ByteAt(n, k) ==
  IF FileClusterOf(n, k \div BSLPC) \in ClustNums
  THEN DataView(clust[FileClusterOf(n, k \div BSLPC)].info)[k % BSLPC]
  ELSE 0

\* the bytes a read of count bytes at pos may return from a file of the given size
BytesUpToEnd(count, size, pos) == IF count < size - pos THEN count ELSE size - pos

\* C39: a successful soRead(path, buff, count, pos) on a regular file of
\* size S with 0 <= pos <= S returns min(count, S - pos) and copies that many
\* bytes, the bytes pos .. pos + min(count, S - pos) - 1 of the file, and
\* nothing from beyond the end of the file.
C39_ReadStopsAtEndOfFile ==
  (ret.op = "soRead" /\ ret.err = "OK" /\ ret.b <= inode[DataFile].size)
    => /\ ret.val.n = BytesUpToEnd(ret.a, inode[DataFile].size, ret.b)
       /\ Len(ret.val.buff) = BytesUpToEnd(ret.a, inode[DataFile].size, ret.b)
       /\ \A i \in 1 .. Len(ret.val.buff) :
            i <= BytesUpToEnd(ret.a, inode[DataFile].size, ret.b)
              => ret.val.buff[i] = ByteAt(DataFile, ret.b + i - 1)

\* the volume of the core operations as fsck reads it from its device: the
\* superblock with the block layout that mkfs gives a volume of itotal
\* inodes and dzone_total clusters
OnDevice(S) ==
  [S EXCEPT !.sb = [itable_start |-> 1, itable_size |-> itotal \div IPB,
                    dzone_start |-> 1 + itotal \div IPB,
                    devsize |-> 1 + itotal \div IPB + dzone_total * BLOCKS_PER_CLUSTER] @@ S.sb]

\* C40: fsckCheckInodeList, fsckCheckDataZone and fsckCheckCltLList report
\* no error on the volume that a successful call of a core operation leaves,
\* whatever calls went before from the freshly formatted volume.
C40_FsckAcceptsReachableVolumes ==
  [][ret'.err = "OK"
       => /\ fsckCheckInodeList(OnDevice(Cur))' = "OK"
          /\ fsckCheckDataZone(OnDevice(Cur))' = "OK"
          /\ fsckCheckCltLList(OnDevice(Cur))' = "OK"]_vars

====
